---------------------------- MODULE Spec2Model ----------------------------
(***************************************************************************)
(* A model of kv_pet: folder scan and part-number lookup (file_lookup.py), *)
(* parts-table extraction from a PDF and from a batch of PDFs              *)
(* (pdf_extract.py), and the extraction worker of the application (app.py).*)
(*                                                                         *)
(* Text is a sequence of one-character strings.  An Optional value is a    *)
(* sequence of length at most one: None is <<>> and a present value v is   *)
(* <<v>>.  Python's 0-based indices are kept 1-based here (a Python index  *)
(* k is the position k + 1).                                               *)
(***************************************************************************)
EXTENDS Integers, Sequences, FiniteSets, TLC

VARIABLES
    pc,               \* "ready" before the modelled call, "done" after it
    part_number,      \* lookup / find: the raw part number
    files,            \* lookup / find / collapse: the list of Paths
    match_mode,       \* lookup: the match mode
    result,           \* lookup: the MatchResult
    file_extensions,  \* find: the extension filter
    matches,          \* find: mode -> Optional list returned in that mode
    groups,           \* collapse: the dict base -> [(rev, path)], in insertion order
    collapsed,        \* collapse: the returned list
    filename,         \* extract_revision_number: its argument
    revision,         \* extract_revision_number: <<>> before the call, <<returned>> after
    table,            \* extract_part_rows_from_table: its argument
    header,           \* find_header_row: <<>> before the call, <<returned>> after
    part_rows,        \* extract_part_rows_from_table: <<>> before, <<returned>> after
    document,         \* extract_part_rows: the PDF behind pdf_path
    tried,            \* extract_part_rows: the tables whose extract() was called, in call order
    raised,           \* the exception that left the modelled call, if any
    folder,           \* scan_folder / lookup_part_numbers: the directory tree behind folder_path
    recursive,        \* scan_folder / lookup_part_numbers: the recursive flag
    scanned,          \* scan_folder: <<>> before the call, <<outcome>> after
    part_numbers,     \* lookup_part_numbers: the list of part numbers
    position,         \* lookup_part_numbers: how many list elements the loop has handled
    results,          \* lookup_part_numbers: the dict built by the loop
    returned,         \* lookup_part_numbers: <<>> before it returns, <<returned dict>> after
    scan_calls,       \* lookup_part_numbers: how often it has called scan_folder
    pdf_paths,        \* batch extraction: the list of PDF paths
    call,             \* batch extraction: "batch" for extract_part_numbers_batch, "worker" for the application worker
    raw_text,         \* normalize_for_match: its argument
    normalized_text,  \* normalize_for_match: <<>> before the call, <<returned>> after
    renormalized_text, \* normalize_for_match: <<>> before it is called on its own result, <<returned>> after
    normalized_header,\* normalize_header: <<>> before it is called on the same text, <<returned>> after
    recollapsed,      \* collapse_to_latest_revision: <<>> before it is called on its own result, <<returned>> after
    extract_btn,      \* application: the state of the extract button, "normal" or "disabled"
    threads,          \* application: the worker threads started so far, each with its position in _extraction_worker
    after_queue       \* application: the callbacks scheduled with root.after(0, ...) and not yet run

docVars == <<document, tried, raised>>

scanVars == <<folder, recursive, scanned, part_numbers, position, results, returned, scan_calls>>

batchVars == <<pdf_paths, call>>

normVars == <<raw_text, normalized_text, renormalized_text, normalized_header>>

againVars == <<recollapsed>>

appVars == <<extract_btn, threads, after_queue>>

vars == <<pc, part_number, files, match_mode, result, file_extensions, matches,
          groups, collapsed, filename, revision, table, header, part_rows,
          docVars,
          scanVars,
          batchVars,
          normVars,
          againVars,
          appVars>>

----------------------------------------------------------------------------
(* Optional values and text primitives (Python str methods).               *)

None == <<>>

Some(v) == <<v>>

\* a call ends by returning a value or by raising an exception
Return(value) == [raised |-> None, value |-> value]

Raise(exception) == [raised |-> Some(exception), value |-> <<>>]

UpperLetters == <<"A","B","C","D","E","F","G","H","I","J","K","L","M",
                  "N","O","P","Q","R","S","T","U","V","W","X","Y","Z">>

LowerLetters == <<"a","b","c","d","e","f","g","h","i","j","k","l","m",
                  "n","o","p","q","r","s","t","u","v","w","x","y","z">>

Digits == <<"0","1","2","3","4","5","6","7","8","9">>

Whitespace == {" ", "\t", "\n"}

\* str.lower() on one character
LowerChar(c) ==
    IF \E i \in 1..Len(UpperLetters) : UpperLetters[i] = c
    THEN LowerLetters[CHOOSE i \in 1..Len(UpperLetters) : UpperLetters[i] = c]
    ELSE c

\* str.lower()
Lower(s) == [i \in 1..Len(s) |-> LowerChar(s[i])]

IsDigit(c) == \E i \in 1..Len(Digits) : Digits[i] = c

DigitValue(c) == (CHOOSE i \in 1..Len(Digits) : Digits[i] = c) - 1

\* str.rstrip(chars): drop the longest suffix made of characters of chars
RECURSIVE RStrip(_, _)
RStrip(s, chars) ==
    IF s # <<>> /\ s[Len(s)] \in chars
    THEN RStrip(SubSeq(s, 1, Len(s) - 1), chars)
    ELSE s

\* str.lstrip(chars)
RECURSIVE LStrip(_, _)
LStrip(s, chars) ==
    IF s # <<>> /\ Head(s) \in chars THEN LStrip(Tail(s), chars) ELSE s

\* str.strip()
Strip(s) == LStrip(RStrip(s, Whitespace), Whitespace)

\* str.endswith(suffix)
EndsWith(s, suffix) ==
    /\ Len(suffix) <= Len(s)
    /\ SubSeq(s, Len(s) - Len(suffix) + 1, Len(s)) = suffix

\* str.startswith(prefix)
StartsWith(s, prefix) ==
    /\ Len(prefix) <= Len(s)
    /\ SubSeq(s, 1, Len(prefix)) = prefix

\* the `in` operator on str: sub occurs in s
Contains(s, sub) ==
    \E i \in 0..(Len(s) - Len(sub)) : SubSeq(s, i + 1, i + Len(sub)) = sub

\* int() of a run of decimal digits
RECURSIVE ParseInt(_)
ParseInt(ds) ==
    IF ds = <<>> THEN 0
    ELSE 10 * ParseInt(SubSeq(ds, 1, Len(ds) - 1)) + DigitValue(ds[Len(ds)])

----------------------------------------------------------------------------
(* file_lookup.py                                                          *)

\* MatchResult() with the dataclass defaults
MatchResult == [pdf_files |-> <<>>, model_files |-> <<>>,
                no_pdf_required |-> FALSE, status |-> ""]

\* re.sub(r"[\s\-_]", "", text.lower())
\* a faulty variant: underscores are kept
normalize_for_match_keeps_underscore(text) ==
    LET Kept(c) == c \notin Whitespace \cup {"-"}
    IN  SelectSeq(Lower(text), Kept)

normalize_for_match(text) ==
    LET Kept(c) == c \notin Whitespace /\ c # "-" /\ c # "_"
    IN  SelectSeq(Lower(text), Kept)

\* The regular expression _r(?:ev)?(\d+) tried at position i of s: the
\* position of the first digit of the group, or 0 when there is no match
\* at i.  The optional "ev" is taken when digits follow it; otherwise the
\* digits must follow "_r" directly.
RevisionDigitsAt(s, i) ==
    IF ~(i + 1 <= Len(s) /\ s[i] = "_" /\ s[i + 1] = "r") THEN 0
    ELSE IF i + 4 <= Len(s) /\ s[i + 2] = "e" /\ s[i + 3] = "v" /\ IsDigit(s[i + 4])
         THEN i + 4
    ELSE IF i + 2 <= Len(s) /\ IsDigit(s[i + 2]) THEN i + 2
    ELSE 0

\* \d+ is greedy: the last position of the digit run that starts at d
RECURSIVE DigitRunEnd(_, _)
DigitRunEnd(s, d) ==
    IF d + 1 <= Len(s) /\ IsDigit(s[d + 1]) THEN DigitRunEnd(s, d + 1) ELSE d

\* re.search: the leftmost position from i on at which the pattern matches, or 0
RECURSIVE RevisionSearch(_, _)
RevisionSearch(s, i) ==
    IF i > Len(s) THEN 0
    ELSE IF RevisionDigitsAt(s, i) # 0 THEN i
    ELSE RevisionSearch(s, i + 1)

\* a faulty variant: the pattern _r(\d+), which misses _rev<digits>
extract_revision_number_no_ev(fname) ==
    LET s == Lower(fname)
        i == RevisionSearch(s, 1)
    IN  IF i = 0 \/ s[i + 2] = "e" THEN None
        ELSE Some(ParseInt(SubSeq(s, i + 2, DigitRunEnd(s, i + 2))))

extract_revision_number(fname) ==
    LET s == Lower(fname)
        i == RevisionSearch(s, 1)
        d == RevisionDigitsAt(s, i)
    IN  IF i = 0 THEN None
        ELSE Some(ParseInt(SubSeq(s, d, DigitRunEnd(s, d))))

\* re.sub(pattern, "", s): every non-overlapping match, leftmost first, removed
RECURSIVE RevisionSub(_, _)
RevisionSub(s, i) ==
    IF i > Len(s) THEN <<>>
    ELSE IF RevisionDigitsAt(s, i) # 0
         THEN RevisionSub(s, DigitRunEnd(s, RevisionDigitsAt(s, i)) + 1)
    ELSE <<s[i]>> \o RevisionSub(s, i + 1)

\* a faulty variant: re.sub with count=1, only the first token removed
get_base_name_without_revision_first_only(fname) ==
    LET s == Lower(fname)
        i == RevisionSearch(s, 1)
    IN  IF i = 0 THEN s
        ELSE SubSeq(s, 1, i - 1)
             \o SubSeq(s, DigitRunEnd(s, RevisionDigitsAt(s, i)) + 1, Len(s))

get_base_name_without_revision(fname) == RevisionSub(Lower(fname), 1)

\* groups[base].append((rev, file_path)), creating the entry when base is new
AddToGroup(g, base, item) ==
    IF \E k \in 1..Len(g) : g[k].base = base
    THEN [k \in 1..Len(g) |->
            IF g[k].base = base
            THEN [g[k] EXCEPT !.items = Append(@, item)]
            ELSE g[k]]
    ELSE Append(g, [base |-> base, items |-> <<item>>])

\* the first loop of collapse_to_latest_revision, from the dict g on
RECURSIVE BuildGroups(_, _)
BuildGroups(fs, g) ==
    IF fs = <<>> THEN g
    ELSE LET file_path == Head(fs)
             stem == file_path.stem
             base == get_base_name_without_revision(stem)
             rev  == extract_revision_number(stem)
         IN  BuildGroups(Tail(fs),
                         AddToGroup(g, base, [rev |-> rev, path |-> file_path]))

\* a faulty variant: a sort that is not stable, an item going before the
\* sorted items of the same revision
InsertByRevDesc_before_equal(sorted, x) ==
    LET smaller == {k \in 1..Len(sorted) : sorted[k].rev[1] <= x.rev[1]}
        at == IF smaller = {} THEN Len(sorted) + 1
              ELSE CHOOSE k \in smaller : \A j \in smaller : k <= j
    IN  SubSeq(sorted, 1, at - 1) \o <<x>> \o SubSeq(sorted, at, Len(sorted))

\* list.sort(key=lambda x: x[0], reverse=True) is stable: an item goes
\* before the first sorted item of a strictly smaller revision
InsertByRevDesc(sorted, x) ==
    LET smaller == {k \in 1..Len(sorted) : sorted[k].rev[1] < x.rev[1]}
        at == IF smaller = {} THEN Len(sorted) + 1
              ELSE CHOOSE k \in smaller : \A j \in smaller : k <= j
    IN  SubSeq(sorted, 1, at - 1) \o <<x>> \o SubSeq(sorted, at, Len(sorted))

RECURSIVE SortByRevDesc(_)
SortByRevDesc(items) ==
    IF items = <<>> THEN <<>>
    ELSE InsertByRevDesc(SortByRevDesc(SubSeq(items, 1, Len(items) - 1)),
                         items[Len(items)])

\* a faulty variant: the sort without reverse=True, the lowest revision kept
CollapseGroup_lowest(items) ==
    LET HasRev(it) == it.rev # None
        with_rev == SelectSeq(items, HasRev)
    IN  IF with_rev # <<>>
        THEN <<SortByRevDesc(with_rev)[Len(with_rev)].path>>
        ELSE [k \in 1..Len(items) |-> items[k].path]

\* a faulty variant: a group with revisions loses its lowest revision only
CollapseGroup_drops_oldest(items) ==
    LET HasRev(it) == it.rev # None
        with_rev == SelectSeq(items, HasRev)
        sorted == SortByRevDesc(with_rev)
    IN  IF Len(with_rev) > 1
        THEN [k \in 1..(Len(sorted) - 1) |-> sorted[k].path]
        ELSE [k \in 1..Len(items) |-> items[k].path]

\* a faulty variant: a group without revisions keeps its first member only
CollapseGroup_drop_plain(items) ==
    LET HasRev(it) == it.rev # None
        with_rev == SelectSeq(items, HasRev)
    IN  IF with_rev # <<>>
        THEN <<SortByRevDesc(with_rev)[1].path>>
        ELSE <<items[1].path>>

\* the body of the second loop of collapse_to_latest_revision: what one
\* group adds to result
CollapseGroup(items) ==
    LET HasRev(it) == it.rev # None
        NoRev(it) == it.rev = None
        with_rev == SelectSeq(items, HasRev)
        without_rev == SelectSeq(items, NoRev)
    IN  IF with_rev # <<>>
        THEN <<SortByRevDesc(with_rev)[1].path>>
        ELSE [k \in 1..Len(without_rev) |-> without_rev[k].path]

\* the second loop of collapse_to_latest_revision over groups.items()
RECURSIVE CollapseGroups(_)
CollapseGroups(g) ==
    IF g = <<>> THEN <<>>
    ELSE CollapseGroup(Head(g).items) \o CollapseGroups(Tail(g))

collapse_to_latest_revision(fs) ==
    IF fs = <<>> THEN <<>> ELSE CollapseGroups(BuildGroups(fs, <<>>))

\* The directory tree behind a path: a node has its Path, is a regular file
\* or a directory, and a directory lists its entries in the order the
\* operating system yields them.
FileNode(stem, suffix) ==
    [path |-> [stem |-> stem, suffix |-> suffix], is_file |-> TRUE, entries |-> <<>>]

DirNode(stem, suffix, entries) ==
    [path |-> [stem |-> stem, suffix |-> suffix], is_file |-> FALSE, entries |-> entries]

\* folder.iterdir()
iterdir(node) == node.entries

RECURSIVE Flatten(_)
Flatten(lists) ==
    IF lists = <<>> THEN <<>> ELSE Head(lists) \o Flatten(Tail(lists))

\* folder.rglob("*"): the entries of the directory, then those of each of
\* its subdirectories in turn
RECURSIVE rglob(_)
rglob(node) ==
    node.entries \o Flatten([k \in 1..Len(node.entries) |-> rglob(node.entries[k])])

\* [p for p in nodes if p.is_file()]
RegularFiles(nodes) ==
    LET IsFile(node) == node.is_file
        kept == SelectSeq(nodes, IsFile)
    IN  [k \in 1..Len(kept) |-> kept[k].path]

\* a faulty variant: the listing without the is_file() filter
scan_folder_lists_directories(folder_path, recursive_) ==
    IF ~folder_path.exists THEN Raise("FileNotFoundError")
    ELSE IF ~folder_path.is_dir THEN Raise("NotADirectoryError")
    ELSE LET nodes == IF recursive_ THEN rglob(folder_path) ELSE iterdir(folder_path)
         IN  Return([k \in 1..Len(nodes) |-> nodes[k].path])

\* folder_path is a record: whether the path exists, whether it is a
\* directory, and its entries
scan_folder(folder_path, recursive_) ==
    IF ~folder_path.exists THEN Raise("FileNotFoundError")
    ELSE IF ~folder_path.is_dir THEN Raise("NotADirectoryError")
    ELSE IF recursive_ THEN Return(RegularFiles(rglob(folder_path)))
    ELSE Return(RegularFiles(iterdir(folder_path)))

\* a faulty variant: contains mode compares with the stem lowercased but not
\* normalized
FileMatches_raw_contains(file_path, normalized_pn, mode, exts) ==
    LET truthy == exts # None /\ exts[1] # <<>>
        lowered == IF truthy THEN {Lower(exts[1][k]) : k \in 1..Len(exts[1])} ELSE {}
        normalized_stem == normalize_for_match(file_path.stem)
    IN  /\ truthy => Lower(file_path.suffix) \in lowered
        /\ IF mode = "exact" THEN normalized_stem = normalized_pn
           ELSE IF mode = "startswith" THEN StartsWith(normalized_stem, normalized_pn)
           ELSE Contains(Lower(file_path.stem), normalized_pn)

\* a faulty variant: a mode that is none of the three names matches nothing
FileMatches_unknown_mode_rejected(file_path, normalized_pn, mode, exts) ==
    LET truthy == exts # None /\ exts[1] # <<>>
        lowered == IF truthy THEN {Lower(exts[1][k]) : k \in 1..Len(exts[1])} ELSE {}
        normalized_stem == normalize_for_match(file_path.stem)
    IN  /\ truthy => Lower(file_path.suffix) \in lowered
        /\ IF mode = "exact" THEN normalized_stem = normalized_pn
           ELSE IF mode = "startswith" THEN StartsWith(normalized_stem, normalized_pn)
           ELSE mode = "contains" /\ Contains(normalized_stem, normalized_pn)

\* the test of one file in the loop of find_matching_files
FileMatches(file_path, normalized_pn, mode, exts) ==
    LET truthy == exts # None /\ exts[1] # <<>>
        lowered == IF truthy THEN {Lower(exts[1][k]) : k \in 1..Len(exts[1])} ELSE {}
        normalized_stem == normalize_for_match(file_path.stem)
    IN  /\ truthy => Lower(file_path.suffix) \in lowered
        /\ IF mode = "exact" THEN normalized_stem = normalized_pn
           ELSE IF mode = "startswith" THEN StartsWith(normalized_stem, normalized_pn)
           ELSE Contains(normalized_stem, normalized_pn)

\* part_number.rstrip("*").strip()
CleanPartNumber(pn) == Strip(RStrip(pn, {"*"}))

\* a faulty variant: each match is put in front of the earlier ones
find_matching_files_newest_first(pn, fs, mode, exts) ==
    LET normalized_pn == normalize_for_match(CleanPartNumber(pn))
        Matches(file_path) == FileMatches(file_path, normalized_pn, mode, exts)
        found == SelectSeq(fs, Matches)
    IN  [k \in 1..Len(found) |-> found[Len(found) + 1 - k]]

\* exts is the Optional file_extensions list: None, or Some(list) with a
\* list that may be empty; "if file_extensions:" holds for a non-empty list
find_matching_files(pn, fs, mode, exts) ==
    LET normalized_pn == normalize_for_match(CleanPartNumber(pn))
        Matches(file_path) == FileMatches(file_path, normalized_pn, mode, exts)
    IN  SelectSeq(fs, Matches)

PdfExtensions == << <<".","p","d","f">> >>

ModelExtensions == << <<".","i","p","t">>, <<".","i","a","m">> >>

\* part_number.rstrip().endswith("*")
EndsWithStar(pn) == EndsWith(RStrip(pn, Whitespace), <<"*">>)

\* f"{len(result.pdf_files)} PDF(s)" or "No PDF match"
StatusFor(pdf_files) ==
    IF pdf_files # <<>> THEN ToString(Len(pdf_files)) \o " PDF(s)"
    ELSE "No PDF match"

\* a faulty variant: the starred branch without its early return, so that
\* the PDF search runs as well
lookup_part_number_fall_through(pn, fs, mode) ==
    LET pdf_matches == find_matching_files(pn, fs, mode, Some(PdfExtensions))
        pdf_files == collapse_to_latest_revision(pdf_matches)
        model_matches == find_matching_files(pn, fs, mode, Some(ModelExtensions))
    IN  IF EndsWithStar(pn)
        THEN [pdf_files |-> pdf_files, model_files |-> model_matches,
              no_pdf_required |-> TRUE, status |-> "No PDF required"]
        ELSE [pdf_files |-> pdf_files, model_files |-> model_matches,
              no_pdf_required |-> FALSE, status |-> StatusFor(pdf_files)]

\* a faulty variant: status counts the PDF matches before the collapse
lookup_part_number_counts_matches(pn, fs, mode) ==
    LET pdf_matches == find_matching_files(pn, fs, mode, Some(PdfExtensions))
        pdf_files == collapse_to_latest_revision(pdf_matches)
        model_matches == find_matching_files(pn, fs, mode, Some(ModelExtensions))
    IN  IF EndsWithStar(pn)
        THEN [MatchResult EXCEPT !.no_pdf_required = TRUE,
                                 !.status = "No PDF required",
                                 !.model_files = model_matches]
        ELSE [pdf_files |-> pdf_files, model_files |-> model_matches,
              no_pdf_required |-> FALSE, status |-> StatusFor(pdf_matches)]

lookup_part_number(pn, fs, mode) ==
    LET pdf_matches == find_matching_files(pn, fs, mode, Some(PdfExtensions))
        pdf_files == collapse_to_latest_revision(pdf_matches)
        model_matches == find_matching_files(pn, fs, mode, Some(ModelExtensions))
    IN  IF EndsWithStar(pn)
        THEN [MatchResult EXCEPT !.no_pdf_required = TRUE,
                                 !.status = "No PDF required",
                                 !.model_files = model_matches]
        ELSE [pdf_files |-> pdf_files, model_files |-> model_matches,
              no_pdf_required |-> FALSE, status |-> StatusFor(pdf_files)]

----------------------------------------------------------------------------
(* pdf_extract.py.  A cell is an Optional text; a row is a sequence of     *)
(* cells and a table a sequence of rows.                                    *)

\* COLUMN_ALIASES
COLUMN_ALIASES ==
    [partnumber |-> { <<"p","a","r","t","n","u","m","b","e","r">>,
                     <<"p","a","r","t","n","o">>,
                     <<"p","n">>,
                     <<"p","a","r","t">> },
     title |-> { <<"t","i","t","l","e">>,
                <<"n","a","m","e">> },
     description |-> { <<"d","e","s","c","r","i","p","t","i","o","n">>,
                      <<"d","e","s","c">> },
     material |-> { <<"m","a","t","e","r","i","a","l">>,
                   <<"m","a","t">> },
     mass |-> { <<"m","a","s","s">>,
               <<"w","e","i","g","h","t">>,
               <<"w","t">> },
     qty |-> { <<"q","t","y">>,
              <<"q","u","a","n","t","i","t","y">>,
              <<"c","o","u","n","t">> }]

\* str.split(): the maximal runs of non-whitespace characters, word being
\* the run read so far
RECURSIVE Split(_, _)
Split(s, word) ==
    IF s = <<>> THEN (IF word = <<>> THEN <<>> ELSE <<word>>)
    ELSE IF Head(s) \in Whitespace
         THEN (IF word = <<>> THEN <<>> ELSE <<word>>) \o Split(Tail(s), <<>>)
    ELSE Split(Tail(s), Append(word, Head(s)))

\* "".join(words)
RECURSIVE Join(_)
Join(words) == IF words = <<>> THEN <<>> ELSE Head(words) \o Join(Tail(words))

\* str.replace(c, "") for a one-character c
Remove(s, c) == LET Other(x) == x # c IN SelectSeq(s, Other)

\* a faulty variant: hyphens are kept
normalize_header_keeps_hyphen(text) ==
    IF text = None THEN <<>>
    ELSE Remove(Join(Split(Lower(text[1]), <<>>)), "_")

normalize_header(text) ==
    IF text = None THEN <<>>
    ELSE Remove(Remove(Join(Split(Lower(text[1]), <<>>)), "-"), "_")

\* the loop of find_column_index from position i on
RECURSIVE FindColumnFrom(_, _, _)
FindColumnFrom(headers, aliases, i) ==
    IF i > Len(headers) THEN None
    ELSE IF normalize_header(headers[i]) \in aliases THEN Some(i)
    ELSE FindColumnFrom(headers, aliases, i + 1)

\* a faulty variant: the last matching column instead of the first
find_column_index_last(headers, column_name) ==
    LET aliases == COLUMN_ALIASES[column_name]
        hits == {i \in 1..Len(headers) : normalize_header(headers[i]) \in aliases}
    IN  IF hits = {} THEN None
        ELSE Some(CHOOSE i \in hits : \A j \in hits : j <= i)

\* column_name is always a key of COLUMN_ALIASES in this program
find_column_index(headers, column_name) ==
    FindColumnFrom(headers, COLUMN_ALIASES[column_name], 1)

find_part_number_column(headers) == find_column_index(headers, "partnumber")

\* the loop of find_header_row from row row_idx on; the result is the pair
\* (header_row_index, part_number_column_index) of Optionals
RECURSIVE FindHeaderRowFrom(_, _)
FindHeaderRowFrom(tbl, row_idx) ==
    IF row_idx > Len(tbl) THEN <<None, None>>
    ELSE LET col_idx == find_part_number_column(tbl[row_idx])
         IN  IF col_idx # None THEN <<Some(row_idx), col_idx>>
             ELSE FindHeaderRowFrom(tbl, row_idx + 1)

find_header_row(tbl) == FindHeaderRowFrom(tbl, 1)

HeaderMaxLen == 50

header_keywords ==
    { <<"p","a","r","t">>,
      <<"n","u","m","b","e","r">>,
      <<"p","o","s">>,
      <<"t","i","t","l","e">>,
      <<"d","e","s","c","r","i","p","t","i","o","n">>,
      <<"m","a","t","e","r","i","a","l">>,
      <<"m","a","s","s">>,
      <<"q","t","y">>,
      <<"q","u","a","n","t","i","t","y">>,
      <<"i","t","e","m">> }

\* a faulty variant: the keyword test without lower()
_is_header_like_no_lower(value) ==
    LET normalized == Strip(value)
    IN  normalized \in header_keywords \/ Len(normalized) > HeaderMaxLen

_is_header_like(value) ==
    LET normalized == Strip(Lower(value))
    IN  normalized \in header_keywords \/ Len(normalized) > HeaderMaxLen

\* a faulty variant: the cell text without strip()
_get_cell_value_unstripped(row, idx) ==
    IF idx = None \/ idx[1] > Len(row) THEN <<>>
    ELSE LET value == row[idx[1]]
         IN  IF value # None /\ value[1] # <<>> THEN value[1] ELSE <<>>

\* idx is an Optional position
_get_cell_value(row, idx) ==
    IF idx = None \/ idx[1] > Len(row) THEN <<>>
    ELSE LET value == row[idx[1]]
         IN  IF value # None /\ value[1] # <<>> THEN Strip(value[1]) ELSE <<>>

\* PartRow(...) for one data row
PartRow(row, col_indices) ==
    [part_number |-> _get_cell_value(row, col_indices.part_number),
     title       |-> _get_cell_value(row, col_indices.title),
     description |-> _get_cell_value(row, col_indices.description),
     material    |-> _get_cell_value(row, col_indices.material),
     mass        |-> _get_cell_value(row, col_indices.mass),
     qty         |-> _get_cell_value(row, col_indices.qty)]

\* a faulty variant: the loop ends after the first PartRow
EmitPartRows_first_only(data_rows, col_indices) ==
    LET Valid(k) ==
            LET pn_value == _get_cell_value(data_rows[k], col_indices.part_number)
            IN  pn_value # <<>> /\ ~_is_header_like(pn_value)
        valid == {k \in 1..Len(data_rows) : Valid(k)}
    IN  IF valid = {} THEN <<>>
        ELSE <<PartRow(data_rows[CHOOSE k \in valid : \A k2 \in valid : k <= k2],
                       col_indices)>>

\* the final loop of extract_part_rows_from_table over data_rows
RECURSIVE EmitPartRows(_, _)
EmitPartRows(data_rows, col_indices) ==
    IF data_rows = <<>> THEN <<>>
    ELSE LET row == Head(data_rows)
             pn_value == _get_cell_value(row, col_indices.part_number)
         IN  (IF pn_value # <<>> /\ ~_is_header_like(pn_value)
              THEN <<PartRow(row, col_indices)>>
              ELSE <<>>)
             \o EmitPartRows(Tail(data_rows), col_indices)

\* a faulty variant: any non-empty value counts, header-like or not
AnyDataAbove_any_text(data_rows, pn_col_idx) ==
    \E k \in 1..Len(data_rows) : _get_cell_value(data_rows[k], pn_col_idx) # <<>>

\* any(_get_cell_value(row, pn) for row in data_rows
\*     if not _is_header_like(_get_cell_value(row, pn) or ""))
AnyDataAbove(data_rows, pn_col_idx) ==
    \E k \in 1..Len(data_rows) :
        /\ ~_is_header_like(_get_cell_value(data_rows[k], pn_col_idx))
        /\ _get_cell_value(data_rows[k], pn_col_idx) # <<>>

extract_part_rows_from_table(tbl) ==
    IF tbl = <<>> \/ Len(tbl) < 2 THEN <<>>
    ELSE LET found == find_header_row(tbl)
             header_row_idx == found[1]
             pn_col_idx == found[2]
         IN  IF header_row_idx = None \/ pn_col_idx = None THEN <<>>
             ELSE LET header_row == tbl[header_row_idx[1]]
                      col_indices ==
                          [part_number |-> pn_col_idx,
                           title       |-> find_column_index(header_row, "title"),
                           description |-> find_column_index(header_row, "description"),
                           material    |-> find_column_index(header_row, "material"),
                           mass        |-> find_column_index(header_row, "mass"),
                           qty         |-> find_column_index(header_row, "qty")]
                      above == SubSeq(tbl, 1, header_row_idx[1] - 1)
                      below == SubSeq(tbl, header_row_idx[1] + 1, Len(tbl))
                      data_rows == IF AnyDataAbove(above, pn_col_idx)
                                   THEN above ELSE below
                  IN  EmitPartRows(data_rows, col_indices)

----------------------------------------------------------------------------
(* pdf_extract.py: table selection in a document.  A PDF is a record: it    *)
(* exists or not, pdfplumber can open it or not, and it holds the tables    *)
(* page.find_tables() detects, listed page by page in detection order.  A   *)
(* detected table has its page number, its bbox (x0, top, x1, bottom) and   *)
(* the grid its extract() returns.                                          *)

PageOffset == 10000

get_table_position(tbl) == <<tbl.bbox[3], tbl.bbox[4]>>

\* all_tables_with_pos: (weighted_pos, page_num, table) for every detected
\* table; the table object is named by its place in the detection order
AllTablesWithPos(tables) ==
    [k \in 1..Len(tables) |->
        LET pos == get_table_position(tables[k])
            page_num == tables[k].page_num
        IN  << <<pos[1], pos[2] + page_num * PageOffset>>, page_num, k >>]

\* a faulty variant: the tables ordered by weighted_pos itself
SortKey_position(x) == <<x[1][1], x[1][2]>>

\* key=lambda x: (x[0][1], x[0][0])
SortKey(x) == <<x[1][2], x[1][1]>>

\* tuple comparison a >= b of two sort keys
KeyGreaterEqual(a, b) == a[1] > b[1] \/ (a[1] = b[1] /\ a[2] >= b[2])

\* list.sort(key=..., reverse=True) is stable: x, which comes after the
\* elements of sorted in the original list, goes behind those of equal key
RECURSIVE InsertByKeyDesc(_, _)
InsertByKeyDesc(sorted, x) ==
    IF sorted = <<>> THEN <<x>>
    ELSE IF KeyGreaterEqual(SortKey(Head(sorted)), SortKey(x))
         THEN <<Head(sorted)>> \o InsertByKeyDesc(Tail(sorted), x)
         ELSE <<x>> \o sorted

RECURSIVE SortByKeyDesc(_)
SortByKeyDesc(items) ==
    IF items = <<>> THEN <<>>
    ELSE InsertByKeyDesc(SortByKeyDesc(SubSeq(items, 1, Len(items) - 1)),
                         items[Len(items)])

\* a faulty variant: the loop never returns early and the rows of every
\* table are collected
RECURSIVE TryTables_collect_all(_, _)
TryTables_collect_all(all_tables_with_pos, tables) ==
    IF all_tables_with_pos = <<>> THEN [tried |-> <<>>, part_rows |-> <<>>]
    ELSE LET tbl == Head(all_tables_with_pos)[3]
             extracted == tables[tbl].grid
             rest == TryTables_collect_all(Tail(all_tables_with_pos), tables)
         IN  [tried |-> <<tbl>> \o rest.tried,
              part_rows |-> extract_part_rows_from_table(extracted) \o rest.part_rows]

\* the loop over the sorted tables: the tables whose extract() is called and
\* the rows returned
RECURSIVE TryTables(_, _)
TryTables(all_tables_with_pos, tables) ==
    IF all_tables_with_pos = <<>> THEN [tried |-> <<>>, part_rows |-> <<>>]
    ELSE LET tbl == Head(all_tables_with_pos)[3]
             extracted == tables[tbl].grid
             part_rows_ == IF extracted # <<>>
                           THEN extract_part_rows_from_table(extracted)
                           ELSE <<>>
         IN  IF part_rows_ # <<>>
             THEN [tried |-> <<tbl>>, part_rows |-> part_rows_]
             ELSE LET rest == TryTables(Tail(all_tables_with_pos), tables)
                  IN  [tried |-> <<tbl>> \o rest.tried, part_rows |-> rest.part_rows]

\* the tables extract_part_rows calls extract() on, in call order
ExtractedTables(pdf) ==
    IF ~pdf.exists \/ ~pdf.opens THEN <<>>
    ELSE TryTables(SortByKeyDesc(AllTablesWithPos(pdf.tables)), pdf.tables).tried

extract_part_rows(pdf) ==
    IF ~pdf.exists THEN Raise("FileNotFoundError")
    ELSE IF ~pdf.opens THEN Raise("Exception")
    ELSE IF pdf.tables = <<>> THEN Return(<<>>)
    ELSE Return(TryTables(SortByKeyDesc(AllTablesWithPos(pdf.tables)),
                          pdf.tables).part_rows)

\* [row.part_number for row in rows]
PartNumbersOf(rows) == [k \in 1..Len(rows) |-> rows[k].part_number]

extract_part_numbers(pdf) ==
    LET outcome == extract_part_rows(pdf)
    IN  IF outcome.raised # None THEN outcome
        ELSE Return(PartNumbersOf(outcome.value))

\* A PDF path: its directory, its file name and the PDF behind it.
\* str(pdf_path)
PathString(pdf_path) == pdf_path.parent \o "/" \o pdf_path.name

\* one iteration of extract_part_numbers_batch on the dict results
BatchStore(results_, pdf_path) ==
    LET outcome == extract_part_numbers(pdf_path.pdf)
    IN  IF outcome.raised = None
        THEN (pdf_path.name :> outcome.value) @@ results_
        ELSE (pdf_path.name :> <<>>) @@ results_

\* {"ERROR": (None, MatchResult(status="Error"))}
ErrorEntry == ("ERROR" :> <<None, [MatchResult EXCEPT !.status = "Error"]>>)

\* the dict matches the worker builds from the part rows of one PDF:
\* part number -> (part_row, match_result), a later row replacing an earlier
\* one of the same part number
RECURSIVE WorkerMatches(_, _)
WorkerMatches(rows, fs) ==
    IF rows = <<>> THEN <<>>
    ELSE LET part_row == rows[Len(rows)]
             match_result == lookup_part_number(part_row.part_number, fs, "contains")
         IN  (part_row.part_number :> <<part_row, match_result>>)
                 @@ WorkerMatches(SubSeq(rows, 1, Len(rows) - 1), fs)

\* one iteration of the loop of _extraction_worker on self.results
WorkerStore(results_, pdf_path, fs) ==
    LET outcome == extract_part_rows(pdf_path.pdf)
    IN  IF outcome.raised = None
        THEN (PathString(pdf_path) :> WorkerMatches(outcome.value, fs)) @@ results_
        ELSE (PathString(pdf_path) :> ErrorEntry) @@ results_

----------------------------------------------------------------------------
(* Inputs.  A snapshot lists each path once (scan_folder walks a directory  *)
(* tree), so the file lists are the repetition-free lists over a pool.      *)

MaxFiles == 3

MaxFindFiles == 3

Range(s) == {s[k] : k \in 1..Len(s)}

\* the lists without repetition over S of length at most n
RECURSIVE Lists(_, _)
Lists(S, n) ==
    IF n = 0 THEN {<<>>}
    ELSE LET shorter == Lists(S, n - 1)
             longest == {l \in shorter : Len(l) = n - 1}
         IN  shorter \cup
             {Append(c[1], c[2]) : c \in {d \in longest \X S : d[2] \notin Range(d[1])}}

PartNumberPool ==
    { <<"A","1">>,
      <<"a","-","1"," ">>,
      <<"A","1","*">>,
      <<"A","1","*"," ">>,
      <<"A","1"," ","*","*">>,
      <<"*">>,
      <<"1">>,
      <<"Z","9">> }

FilePool ==
    { [stem |-> <<"A","-","1">>, suffix |-> <<".","p","d","f">>],
      [stem |-> <<"A","1","_","r","e","v","1">>, suffix |-> <<".","p","d","f">>],
      [stem |-> <<"a","1","_","R","2">>, suffix |-> <<".","P","D","F">>],
      [stem |-> <<"A","1">>, suffix |-> <<".","i","p","t">>],
      [stem |-> <<"X","A","1">>, suffix |-> <<".","I","A","M">>],
      [stem |-> <<"A","1">>, suffix |-> <<".","t","x","t">>],
      [stem |-> <<"B","1">>, suffix |-> <<".","p","d","f">>] }

\* find_matching_files and collapse_to_latest_revision take any list: lists
\* that hold a path twice
RepeatedLists ==
    {<<f, f>> : f \in FilePool} \cup {<<f, g, f>> : f, g \in FilePool}

MatchModes == {"exact", "startswith", "contains"}

ExtensionFilters == {None, Some(<<>>), Some(PdfExtensions), Some(ModelExtensions)}

----------------------------------------------------------------------------
(* SpecLookup: one call of lookup_part_number.                              *)

DocIdle ==
    /\ document = <<>> /\ tried = <<>> /\ raised = <<>>

ScanIdle ==
    /\ folder = <<>> /\ recursive = FALSE /\ scanned = <<>> /\ part_numbers = <<>>
    /\ position = 0 /\ results = <<>> /\ returned = <<>> /\ scan_calls = 0

BatchIdle ==
    /\ pdf_paths = <<>> /\ call = ""

NormIdle ==
    /\ raw_text = <<>> /\ normalized_text = <<>> /\ renormalized_text = <<>>
    /\ normalized_header = <<>>

AgainIdle ==
    /\ recollapsed = <<>>

AppIdle ==
    /\ extract_btn = "" /\ threads = <<>> /\ after_queue = <<>>

LookupIdle ==
    /\ part_number = <<>> /\ match_mode = "" /\ result = MatchResult

FindIdle ==
    /\ file_extensions = <<>> /\ matches = <<>>

CollapseIdle ==
    /\ groups = <<>> /\ collapsed = <<>>

RevisionIdle ==
    /\ filename = <<>> /\ revision = <<>>

TableIdle ==
    /\ table = <<>> /\ header = <<>> /\ part_rows = <<>>

InitLookup ==
    /\ pc = "ready"
    /\ part_number \in PartNumberPool
    /\ files \in Lists(FilePool, MaxFiles)
    /\ match_mode \in MatchModes
    /\ result = MatchResult
    /\ FindIdle /\ CollapseIdle /\ RevisionIdle /\ TableIdle
    /\ DocIdle
    /\ ScanIdle
    /\ BatchIdle
    /\ NormIdle
    /\ AgainIdle
    /\ AppIdle

LookupPartNumber ==
    /\ pc = "ready"
    /\ result' = lookup_part_number(part_number, files, match_mode)
    /\ pc' = "done"
    /\ UNCHANGED <<part_number, files, match_mode, file_extensions, matches,
                   groups, collapsed, filename, revision, table, header, part_rows, docVars, scanVars, batchVars, normVars, againVars, appVars>>

NextLookup == LookupPartNumber

SpecLookup == InitLookup /\ [][NextLookup]_vars

----------------------------------------------------------------------------
(* SpecFind: find_matching_files called once in each match mode on the     *)
(* same query, file list and extension filter.                             *)

InitFind ==
    /\ pc = "ready"
    /\ part_number \in PartNumberPool
    /\ files \in Lists(FilePool, MaxFindFiles) \cup RepeatedLists
    /\ file_extensions \in ExtensionFilters
    /\ matches = [m \in MatchModes |-> None]
    /\ match_mode = "" /\ result = MatchResult
    /\ CollapseIdle /\ RevisionIdle /\ TableIdle
    /\ DocIdle
    /\ ScanIdle
    /\ BatchIdle
    /\ NormIdle
    /\ AgainIdle
    /\ AppIdle

FindMatchingFiles(mode) ==
    /\ matches[mode] = None
    /\ matches' = [matches EXCEPT
                     ![mode] = Some(find_matching_files(part_number, files, mode,
                                                        file_extensions))]
    /\ UNCHANGED <<pc, part_number, files, match_mode, result, file_extensions,
                   groups, collapsed, filename, revision, table, header, part_rows, docVars, scanVars, batchVars, normVars, againVars, appVars>>

NextFind == \E mode \in MatchModes : FindMatchingFiles(mode)

SpecFind == InitFind /\ [][NextFind]_vars

----------------------------------------------------------------------------
(* Claims about lookup_part_number and find_matching_files.                *)

\* the last character of pn that is not whitespace is an asterisk
TrimmedEndsWithStar(pn) ==
    \E k \in 1..Len(pn) :
        /\ pn[k] = "*"
        /\ \A j \in (k + 1)..Len(pn) : pn[j] \in Whitespace

HasSuffixIn(file_path, exts) ==
    \E k \in 1..Len(exts) : Lower(file_path.suffix) = exts[k]

\* C1: a result with no_pdf_required set lists no PDF file; and when the part
\* number, trailing whitespace removed, ends with an asterisk, the result is
\* no_pdf_required with no PDF files and status "No PDF required", whatever
\* the snapshot holds.
C1_NoPdfRequiredMeansNoPdfFiles ==
    /\ result.no_pdf_required => result.pdf_files = <<>>
    /\ (pc = "done" /\ TrimmedEndsWithStar(part_number)) =>
          /\ result.no_pdf_required
          /\ result.pdf_files = <<>>
          /\ result.status = "No PDF required"

\* a starred part number was looked up in a snapshot holding a .pdf file that
\* matches it
C1_Witness ==
    /\ pc = "done"
    /\ TrimmedEndsWithStar(part_number)
    /\ result.no_pdf_required
    /\ \E k \in 1..Len(files) :
          /\ HasSuffixIn(files[k], PdfExtensions)
          /\ normalize_for_match(files[k].stem) = <<"a", "1">>
          /\ part_number = <<"A", "1", "*">>

\* the part number with its trailing asterisks and the whitespace around
\* them removed
WithoutAsterisk(pn) == Strip(RStrip(pn, Whitespace \cup {"*"}))

\* the comparison of two normalized keys under a match mode
KeyMatches(mode, stem_key, query_key) ==
    IF mode = "exact" THEN stem_key = query_key
    ELSE IF mode = "startswith"
         THEN \E n \in 0..Len(stem_key) : SubSeq(stem_key, 1, n) = query_key
    ELSE \E a, b \in 0..Len(stem_key) : SubSeq(stem_key, a + 1, b) = query_key

\* C2: for a part number whose trimmed form ends with an asterisk, model_files
\* is exactly the .ipt/.iam files of the snapshot, in snapshot order, whose
\* normalized stem matches the normalized part number with its trailing
\* asterisks and surrounding whitespace removed.
C2_ModelFilesIgnoreAsterisk ==
    (pc = "done" /\ TrimmedEndsWithStar(part_number)) =>
        LET query_key == normalize_for_match(WithoutAsterisk(part_number))
            IsModelMatch(file_path) ==
                /\ HasSuffixIn(file_path, ModelExtensions)
                /\ KeyMatches(match_mode, normalize_for_match(file_path.stem),
                              query_key)
        IN  result.model_files = SelectSeq(files, IsModelMatch)

\* status as a function of the other three fields
StatusOfFields(pdf_files, model_files, no_pdf_required) ==
    IF no_pdf_required THEN "No PDF required"
    ELSE IF Len(pdf_files) = 0 THEN "No PDF match"
    ELSE ToString(Len(pdf_files)) \o " PDF(s)"

\* C3: for a part number whose trimmed form does not end with an asterisk,
\* no_pdf_required is false, pdf_files is the revision collapse of the .pdf
\* matches, model_files is the uncollapsed .ipt/.iam matches, status is
\* "<N> PDF(s)" with N the number of pdf_files when there are some and
\* "No PDF match" exactly when there are none; status is always a function
\* of the other three fields.
C3_UnstarredResult ==
    pc = "done" =>
        /\ result.status = StatusOfFields(result.pdf_files, result.model_files,
                                          result.no_pdf_required)
        /\ ~TrimmedEndsWithStar(part_number) =>
              /\ result.no_pdf_required = FALSE
              /\ result.pdf_files =
                    collapse_to_latest_revision(
                        find_matching_files(part_number, files, match_mode,
                                            Some(PdfExtensions)))
              /\ result.model_files =
                    find_matching_files(part_number, files, match_mode,
                                        Some(ModelExtensions))
              /\ result.pdf_files # <<>> =>
                    result.status = ToString(Len(result.pdf_files)) \o " PDF(s)"
              /\ result.status = "No PDF match" <=> result.pdf_files = <<>>

\* an unstarred lookup whose PDF matches were collapsed to fewer files, with
\* model files found as well
C3_Witness ==
    /\ pc = "done"
    /\ ~TrimmedEndsWithStar(part_number)
    /\ result.status = "1 PDF(s)"
    /\ Len(find_matching_files(part_number, files, match_mode, Some(PdfExtensions))) = 2
    /\ result.model_files # <<>>

\* C4: for a fixed query, file list and extension filter, the exact matches
\* are among the startswith matches, which are among the contains matches.
C4_ModesNested ==
    (\A m \in MatchModes : matches # <<>> /\ matches[m] # None) =>
        /\ Range(matches["exact"][1]) \subseteq Range(matches["startswith"][1])
        /\ Range(matches["startswith"][1]) \subseteq Range(matches["contains"][1])

\* all three modes were run and each inclusion is strict
C4_Witness ==
    /\ matches # <<>>
    /\ \A m \in MatchModes : matches[m] # None
    /\ Range(matches["exact"][1]) # Range(matches["startswith"][1])
    /\ Range(matches["startswith"][1]) # Range(matches["contains"][1])
    /\ matches["exact"][1] # <<>>

\* a is b with some of its elements left out
RECURSIVE IsSubsequence(_, _)
IsSubsequence(a, b) ==
    IF a = <<>> THEN TRUE
    ELSE IF b = <<>> THEN FALSE
    ELSE IF Head(a) = Head(b) THEN IsSubsequence(Tail(a), Tail(b))
    ELSE IsSubsequence(a, Tail(b))

\* the number of places of list that hold x
Count(list, x) == Cardinality({k \in 1..Len(list) : list[k] = x})

\* C16: for every query, file list, mode and extension filter the returned
\* list is a subsequence of the input list: only elements of the input, each
\* at most as often as in the input, in the input's relative order.
C16_ResultIsSubsequence ==
    matches # <<>> =>
        \A m \in MatchModes :
            matches[m] # None =>
                /\ IsSubsequence(matches[m][1], files)
                /\ \A x \in Range(matches[m][1]) :
                      Count(matches[m][1], x) <= Count(files, x)

\* of a list holding A1.ipt, B1.pdf and A1.ipt again, both copies of A1.ipt
\* and nothing else were returned
C16_Witness ==
    /\ matches # <<>>
    /\ Len(files) = 3 /\ files[1] = files[3] /\ files[1] # files[2]
    /\ files[1].stem = <<"A","1">> /\ files[2].stem = <<"B","1">>
    /\ matches["exact"] = Some(<<files[1], files[3]>>)

\* the file passes the name comparison of the mode
NameMatches(file_path, mode) ==
    KeyMatches(mode, normalize_for_match(file_path.stem),
               normalize_for_match(CleanPartNumber(part_number)))

\* the extension of the file is, compared case-insensitively, in the list
HasExtensionIn(file_path, exts) ==
    \E k \in 1..Len(exts) : Lower(file_path.suffix) = Lower(exts[k])

\* C17: whenever an extensions list is given, an empty one included, every
\* returned file has an extension that is, compared case-insensitively, in
\* that list, and the files with another extension are excluded; without a
\* list no file is excluded by extension.
C17_ExtensionFilter ==
    matches # <<>> =>
        \A m \in MatchModes :
            matches[m] # None =>
                LET Kept(file_path) ==
                        /\ NameMatches(file_path, m)
                        /\ file_extensions # None =>
                              HasExtensionIn(file_path, file_extensions[1])
                IN  /\ matches[m][1] = SelectSeq(files, Kept)
                    /\ file_extensions # None =>
                          \A k \in 1..Len(matches[m][1]) :
                              HasExtensionIn(matches[m][1][k], file_extensions[1])

----------------------------------------------------------------------------
(* SpecCollapse: one call of collapse_to_latest_revision, and then one on   *)
(* the list it returned.                                                   *)

MaxCollapse == 4

\* a .pdf file of the given stem
Pdf(stem) == [stem |-> stem, suffix |-> <<".","p","d","f">>]

Abc123 == Pdf(<<"A","B","C","1","2","3">>)

Abc123Rev1 == Pdf(<<"A","B","C","1","2","3","_","r","e","v","1">>)

Abc123Rev2 == Pdf(<<"A","B","C","1","2","3","_","r","e","v","2">>)

LowerAbc123R2 == Pdf(<<"a","b","c","1","2","3","_","R","2">>)

AbcDash123Rev1 == Pdf(<<"A","B","C","-","1","2","3","_","r","e","v","1">>)

OtherLower == Pdf(<<"o","t","h","e","r">>)

OtherUpper == Pdf(<<"O","T","H","E","R">>)

Abc123R1Rev9 == Pdf(<<"A","B","C","1","2","3","_","r","1","_","r","e","v","9">>)

CollapsePool ==
    { Abc123, Abc123Rev1, Abc123Rev2, LowerAbc123R2,
      AbcDash123Rev1, OtherLower, OtherUpper, Abc123R1Rev9 }

RepeatedCollapseLists ==
    {<<f, f>> : f \in CollapsePool} \cup {<<f, g, f>> : f, g \in CollapsePool}

InitCollapse ==
    /\ pc = "ready"
    /\ files \in Lists(CollapsePool, MaxCollapse) \cup RepeatedCollapseLists
    /\ groups = <<>>
    /\ collapsed = <<>>
    /\ LookupIdle /\ FindIdle /\ RevisionIdle /\ TableIdle
    /\ DocIdle
    /\ ScanIdle
    /\ BatchIdle
    /\ NormIdle
    /\ AgainIdle
    /\ AppIdle

CollapseToLatestRevision ==
    /\ pc = "ready"
    /\ groups' = BuildGroups(files, <<>>)
    /\ collapsed' = collapse_to_latest_revision(files)
    /\ pc' = "done"
    /\ UNCHANGED <<part_number, files, match_mode, result, file_extensions, matches,
                   filename, revision, table, header, part_rows, docVars, scanVars, batchVars, normVars, againVars, appVars>>

\* collapse_to_latest_revision called on the list it returned
CollapseAgain ==
    /\ pc = "done"
    /\ recollapsed = <<>>
    /\ recollapsed' = <<collapse_to_latest_revision(collapsed)>>
    /\ UNCHANGED <<pc, part_number, files, match_mode, result, file_extensions, matches,
                   groups, collapsed, filename, revision, table, header, part_rows,
                   docVars, scanVars, batchVars, normVars, appVars>>

NextCollapse == CollapseToLatestRevision \/ CollapseAgain

SpecCollapse == InitCollapse /\ [][NextCollapse]_vars

----------------------------------------------------------------------------
(* SpecRevision: one call of extract_revision_number.  The file names are  *)
(* a prefix, a separator, a tag, a digit string and a suffix put together,  *)
(* so that revision tokens, near misses and second tokens all occur.        *)

MaxDigits == 2

RECURSIVE Strings(_, _)
Strings(S, n) ==
    IF n = 0 THEN {<<>>}
    ELSE LET shorter == Strings(S, n - 1)
         IN  shorter \cup {Append(c[1], c[2]) :
                              c \in {d \in shorter : Len(d) = n - 1} \X S}

NamePrefixes == { <<>>, <<"p","a","r","t">> }

NameSeparators == { <<>>, <<"_">>, <<"-">> }

NameTags == { <<>>, <<"r">>, <<"R">>, <<"r","e","v">>, <<"R","E","V">>,
              <<"r","E","v">>, <<"r","e">>, <<"r","v">>, <<"f","i","n","a","l">> }

NameDigits == Strings({"0", "1", "2", "3"}, MaxDigits)

NameSuffixes == { <<>>, <<"x">>, <<"_","r","2">>, <<"_","r","e","v">> }

InitRevision ==
    /\ pc = "ready"
    /\ filename \in {a \o b \o c \o d \o e :
                        a \in NamePrefixes, b \in NameSeparators, c \in NameTags,
                        d \in NameDigits, e \in NameSuffixes}
    /\ revision = <<>>
    /\ files = <<>>
    /\ LookupIdle /\ FindIdle /\ CollapseIdle /\ TableIdle
    /\ DocIdle
    /\ ScanIdle
    /\ BatchIdle
    /\ NormIdle
    /\ AgainIdle
    /\ AppIdle

ExtractRevisionNumber ==
    /\ pc = "ready"
    /\ revision' = <<extract_revision_number(filename)>>
    /\ pc' = "done"
    /\ UNCHANGED <<part_number, files, match_mode, result, file_extensions, matches,
                   groups, collapsed, filename, table, header, part_rows, docVars, scanVars, batchVars, normVars, againVars, appVars>>

NextRevision == ExtractRevisionNumber

SpecRevision == InitRevision /\ [][NextRevision]_vars

----------------------------------------------------------------------------
(* Claims about collapse_to_latest_revision and extract_revision_number.   *)

\* a revision token _r<digits> or _rev<digits> starts at position i of the
\* lowercased text s
TokenAt(s, i) ==
    /\ i + 2 <= Len(s)
    /\ s[i] = "_"
    /\ s[i + 1] = "r"
    /\ \/ IsDigit(s[i + 2])
       \/ i + 4 <= Len(s) /\ s[i + 2] = "e" /\ s[i + 3] = "v" /\ IsDigit(s[i + 4])

\* the first digit of the token that starts at i
TokenDigits(s, i) == IF IsDigit(s[i + 2]) THEN i + 2 ELSE i + 4

\* the last digit of the token that starts at i
TokenEnd(s, i) ==
    CHOOSE e \in TokenDigits(s, i)..Len(s) :
        /\ \A j \in TokenDigits(s, i)..e : IsDigit(s[j])
        /\ e = Len(s) \/ ~IsDigit(s[e + 1])

\* position p of s lies in a revision token
InToken(s, p) == \E i \in 1..p : TokenAt(s, i) /\ p <= TokenEnd(s, i)

\* the lowercased stem without the characters of its revision tokens
LowerKey(stem) ==
    LET s == Lower(stem)
        kept == {p \in 1..Len(s) : ~InToken(s, p)}
    IN  [n \in 1..Cardinality(kept) |->
            s[CHOOSE p \in kept : Cardinality({r \in kept : r < p}) = n - 1]]

\* the same key normalized: spaces, hyphens and underscores removed as well
NormalizedKey(stem) == normalize_for_match(LowerKey(stem))

\* the keys and the revision of each file of the pool
KeyOf == [file_path \in CollapsePool |-> LowerKey(file_path.stem)]

NormalizedKeyOf == [file_path \in CollapsePool |-> NormalizedKey(file_path.stem)]

RevisionOf == [file_path \in CollapsePool |-> extract_revision_number(file_path.stem)]

RevOf(file_path) == RevisionOf[file_path]

\* the members of l whose lowercase key is key
WithKey(l, key) ==
    LET Has(file_path) == KeyOf[file_path] = key
    IN  SelectSeq(l, Has)

\* files i and j of the input are in the same entry of the groups dict
SameGroup(i, j) ==
    \E g \in 1..Len(groups) :
        /\ \E a \in 1..Len(groups[g].items) : groups[g].items[a].path = files[i]
        /\ \E b \in 1..Len(groups[g].items) : groups[g].items[b].path = files[j]

C6_GroupsIndependent ==
    pc = "done" =>
        \A i \in 1..Len(files) :
            LET key == KeyOf[files[i]]
                members == WithKey(files, key)
                kept == WithKey(collapsed, key)
            IN  /\ (\A m \in 1..Len(members) : RevOf(members[m]) = None) =>
                      kept = members
                /\ kept # <<>>
                /\ kept = collapse_to_latest_revision(members)

\* two unrevisioned files of one group were kept while another group lost
\* a member
C6_Witness ==
    /\ pc = "done"
    /\ Range(files) = {OtherLower, OtherUpper, Abc123Rev1, Abc123Rev2}
    /\ Range(collapsed) = {OtherLower, OtherUpper, Abc123Rev2}

\* C7 as claimed: two files are in the same revision group exactly when their
\* stems, revision tokens removed and normalized (lowercased, without spaces,
\* hyphens and underscores), are equal.
C7_GroupedByNormalizedKey ==
    pc = "done" =>
        \A i, j \in 1..Len(files) :
            SameGroup(i, j) <=>
                NormalizedKeyOf[files[i]] = NormalizedKeyOf[files[j]]

\* C7 as amended: two files are in the same revision group exactly when their
\* lowercased stems, revision tokens removed, are equal; spaces, hyphens and
\* underscores outside the tokens are kept in the key, so stems that differ
\* only in case are collapsed together and stems that differ in a hyphen are
\* not.
C7_GroupedByLowercaseKey ==
    pc = "done" =>
        /\ \A i, j \in 1..Len(files) :
              SameGroup(i, j) <=> KeyOf[files[i]] = KeyOf[files[j]]
        /\ \A i \in 1..Len(files) :
              (\A j \in 1..Len(files) :
                  j # i => KeyOf[files[j]] # KeyOf[files[i]])
              => files[i] \in Range(collapsed)
        /\ {Abc123Rev1, LowerAbc123R2} \subseteq Range(files) =>
              Len(WithKey(collapsed, KeyOf[Abc123Rev1])) = 1

\* stems differing only in case share a group; stems differing in a hyphen
\* are in two groups and both survive
C7_Witness ==
    /\ pc = "done"
    /\ files = <<AbcDash123Rev1, Abc123Rev2, LowerAbc123R2>>
    /\ Len(groups) = 2
    /\ collapsed = <<AbcDash123Rev1, Abc123Rev2>>

\* 10 to the power n
RECURSIVE Pow10(_)
Pow10(n) == IF n = 0 THEN 1 ELSE 10 * Pow10(n - 1)

\* the digits ds[k..] weighted by their place
RECURSIVE PlaceSum(_, _)
PlaceSum(ds, k) ==
    IF k > Len(ds) THEN 0
    ELSE DigitValue(ds[k]) * Pow10(Len(ds) - k) + PlaceSum(ds, k + 1)

\* C8: extract_revision_number returns the integer value of the digits of a
\* token _rev<digits> or _r<digits>, matched case-insensitively anywhere in
\* the stem, when there is one, and None when there is none; part_rev12 gives
\* 12, part_R3 gives 3, part_final and part give None.
C8_RevisionNumber ==
    pc = "done" =>
        LET s == Lower(filename)
            tokens == {i \in 1..Len(s) : TokenAt(s, i)}
        IN  /\ tokens = {} <=> revision[1] = None
            /\ tokens # {} =>
                  \E i \in tokens :
                      revision[1] =
                          Some(PlaceSum(SubSeq(s, TokenDigits(s, i), TokenEnd(s, i)), 1))
            /\ filename = <<"p","a","r","t">> \o <<"_","r","e","v","1","2">> => revision[1] = Some(12)
            /\ filename = <<"p","a","r","t">> \o <<"_","R","3">> => revision[1] = Some(3)
            /\ filename = <<"p","a","r","t">> \o <<"_">> \o <<"f","i","n","a","l">> => revision[1] = None
            /\ filename = <<"p","a","r","t">> => revision[1] = None

\* the revision of part_rev12 was extracted
C8_Witness ==
    /\ pc = "done"
    /\ filename = <<"p","a","r","t">> \o <<"_","r","e","v","1","2">>
    /\ revision = <<Some(12)>>

----------------------------------------------------------------------------
(* SpecTable: find_header_row and extract_part_rows_from_table, each       *)
(* called once on the same table.  header and part_rows are <<>> before    *)
(* the call and hold the returned value, wrapped, after it.                *)

MaxRows == 3

\* a cell holding text
Cell(text) == Some(text)

\* n times the character c
Rep(c, n) == [k \in 1..n |-> c]

HeaderNamePnQty == <<Cell(<<"N","a","m","e">>), Cell(<<"P","A","R","T"," ","N","U","M","B","E","R">>), Cell(<<"Q","t","y">>)>>

HeaderPartPn == <<Cell(<<"P","A","R","T">>), Cell(<<"p","_","n">>)>>

HeaderPnDescMatWt == <<Cell(<<"P","N">>), Cell(<<"D","e","s","c">>), Cell(<<"M","a","t">>), Cell(<<"W","T">>)>>

RowWidget == <<Cell(<<"W","i","d","g","e","t">>), Cell(<<"A","B","C","1","2","3">>), Cell(<<"1","0">>)>>

RowGadget == <<Cell(<<"G","a","d","g","e","t">>), Cell(<<"X","Y","Z","7","8","9">>), Cell(<<"5">>)>>

RowItemQty == <<Cell(<<"I","t","e","m">>), Cell(<<" ","Q","T","Y"," ">>)>>

RowNoneLong == <<None, Cell(Rep("x", HeaderMaxLen + 1))>>

RowEmptyFifty == <<Cell(<<>>), Cell(<<" ">> \o Rep("x", HeaderMaxLen) \o <<" ">>)>>

RowShort == <<Cell(<<"X","1">>)>>

RowNoneB2 == <<None, Cell(<<"B","2">>), Cell(<<" ","7"," ">>)>>

RowEmpty == <<>>

RowPool ==
    { HeaderNamePnQty, HeaderPartPn, HeaderPnDescMatWt, RowWidget, RowGadget, RowItemQty,
      RowNoneLong, RowEmptyFifty, RowShort, RowNoneB2, RowEmpty }

InitTable ==
    /\ pc = "ready"
    /\ table \in Strings(RowPool, MaxRows)
    /\ header = <<>>
    /\ part_rows = <<>>
    /\ files = <<>>
    /\ LookupIdle /\ FindIdle /\ CollapseIdle /\ RevisionIdle
    /\ DocIdle
    /\ ScanIdle
    /\ BatchIdle
    /\ NormIdle
    /\ AgainIdle
    /\ AppIdle

FindHeaderRow ==
    /\ header = <<>>
    /\ header' = <<find_header_row(table)>>
    /\ UNCHANGED <<pc, part_number, files, match_mode, result, file_extensions,
                   matches, groups, collapsed, filename, revision, table, part_rows, docVars, scanVars, batchVars, normVars, againVars, appVars>>

ExtractPartRowsFromTable ==
    /\ part_rows = <<>>
    /\ part_rows' = <<extract_part_rows_from_table(table)>>
    /\ UNCHANGED <<pc, part_number, files, match_mode, result, file_extensions,
                   matches, groups, collapsed, filename, revision, table, header, docVars, scanVars, batchVars, normVars, againVars, appVars>>

NextTable == FindHeaderRow \/ ExtractPartRowsFromTable

SpecTable == InitTable /\ [][NextTable]_vars

----------------------------------------------------------------------------
(* Claims about find_header_row and extract_part_rows_from_table.          *)

\* the text of a cell lowercased, without spaces, hyphens and underscores
HeaderKey(cell) ==
    IF cell = None THEN <<>>
    ELSE LET Kept(c) == c \notin Whitespace \cup {"-", "_"}
         IN  SelectSeq(Lower(cell[1]), Kept)

PartNumberAliases ==
    { <<"p","a","r","t","n","u","m","b","e","r">>,
      <<"p","a","r","t","n","o">>,
      <<"p","n">>,
      <<"p","a","r","t">> }

\* for each row of the pool, the positions of its cells that match a
\* part_number alias
RowAliasCells ==
    [row \in RowPool |->
        {c \in 1..Len(row) : HeaderKey(row[c]) \in PartNumberAliases}]

\* the positions of the cells of row that match a part_number alias
AliasCells(row) == RowAliasCells[row]

\* the rows of the table that hold such a cell
AliasRows == {r \in 1..Len(table) : AliasCells(table[r]) # {}}

\* C9: find_header_row returns the smallest row index whose row holds a cell
\* matching a part_number alias, with the lowest index of such a cell in that
\* row; no row above it holds such a cell; when no row does it returns
\* not-found and extract_part_rows_from_table returns the empty list.
C9_FirstHeaderRow ==
    /\ header # <<>> =>
          IF AliasRows = {} THEN header[1] = <<None, None>>
          ELSE \E r \in AliasRows :
                  \E c \in AliasCells(table[r]) :
                      /\ header[1] = <<Some(r), Some(c)>>
                      /\ \A r2 \in AliasRows : r <= r2
                      /\ \A c2 \in AliasCells(table[r]) : c <= c2
                      /\ \A above \in 1..(r - 1) : AliasCells(table[above]) = {}
    /\ (part_rows # <<>> /\ AliasRows = {}) => part_rows[1] = <<>>

\* the header was found in the second row, whose first two cells both match
\* an alias, below a data row
C9_Witness ==
    /\ header = << <<Some(2), Some(1)>> >>
    /\ Len(table) = 3
    /\ AliasCells(table[2]) = {1, 2}
    /\ AliasRows = {2, 3}
    /\ part_rows # <<>> /\ part_rows[1] # <<>>

HeaderLikeKeywords ==
    { <<"p","a","r","t">>,
      <<"n","u","m","b","e","r">>,
      <<"p","o","s">>,
      <<"t","i","t","l","e">>,
      <<"d","e","s","c","r","i","p","t","i","o","n">>,
      <<"m","a","t","e","r","i","a","l">>,
      <<"m","a","s","s">>,
      <<"q","t","y">>,
      <<"q","u","a","n","t","i","t","y">>,
      <<"i","t","e","m">> }

\* C10: every PartRow returned has a part_number that is non-empty after
\* trimming, equals none of the header keywords whatever its case, and is at
\* most 50 characters long; a trimmed value of 50 characters is accepted and
\* one of 51 is rejected.
C10_NoHeaderLikePartNumber ==
    part_rows # <<>> =>
        /\ \A k \in 1..Len(part_rows[1]) :
              LET trimmed == Strip(part_rows[1][k].part_number)
              IN  /\ trimmed # <<>>
                  /\ Lower(trimmed) \notin HeaderLikeKeywords
                  /\ Len(trimmed) <= 50
        /\ table = <<HeaderNamePnQty, RowEmptyFifty>> =>
              /\ Len(part_rows[1]) = 1
              /\ part_rows[1][1].part_number = Rep("x", 50)
        /\ table = <<HeaderNamePnQty, RowNoneLong>> => part_rows[1] = <<>>

\* of a 51-character and a padded 50-character value below the header, only
\* the 50-character one was emitted
C10_Witness ==
    /\ part_rows # <<>>
    /\ table = <<HeaderNamePnQty, RowNoneLong, RowEmptyFifty>>
    /\ Len(part_rows[1]) = 1
    /\ Len(part_rows[1][1].part_number) = 50

----------------------------------------------------------------------------
(* Claims about the rows extract_part_rows_from_table emits.  The rows are  *)
(* described from the table alone: the header row is the first row holding  *)
(* a part-number alias and a row is valid when its part-number cell holds   *)
(* an acceptable value.                                                     *)

\* the first row holding a part_number alias, and the first such cell in it
HeaderRow == CHOOSE r \in AliasRows : \A r2 \in AliasRows : r <= r2

PnColumn ==
    CHOOSE c \in AliasCells(table[HeaderRow]) :
        \A c2 \in AliasCells(table[HeaderRow]) : c <= c2

\* for each row of the pool, the trimmed text of each of its cells (empty for
\* a None cell)
RowTrimmed ==
    [row \in RowPool |->
        [c \in 1..Len(row) |-> IF row[c] = None THEN <<>> ELSE Strip(row[c][1])]]

\* the trimmed text of row r at column c; empty when the column is
\* unresolved (c = 0), the row is too short, or the cell is None
TrimmedCell(r, c) ==
    IF c = 0 \/ c > Len(table[r]) THEN <<>> ELSE RowTrimmed[table[r]][c]

\* for each row of the pool, the columns that hold a non-empty,
\* non-header-like value
RowValidCells ==
    [row \in RowPool |->
        {c \in 1..Len(row) :
            LET value == RowTrimmed[row][c]
            IN  /\ value # <<>>
                /\ Lower(value) \notin HeaderLikeKeywords
                /\ Len(value) <= 50}]

\* row r holds a non-empty, non-header-like value in the part-number column
ValidRow(r) == PnColumn \in RowValidCells[table[r]]

ValidAbove == {r \in 1..(HeaderRow - 1) : ValidRow(r)}

ValidBelow == {r \in (HeaderRow + 1)..Len(table) : ValidRow(r)}

\* the k-th smallest element of a set of row numbers
Nth(S, k) == CHOOSE r \in S : Cardinality({x \in S : x < r}) = k - 1

\* the part-number values of the rows of S, top to bottom
ValuesOf(S) == [k \in 1..Cardinality(S) |-> TrimmedCell(Nth(S, k), PnColumn)]

\* the part numbers of the returned PartRows, in order
EmittedPartNumbers == [k \in 1..Len(part_rows[1]) |-> part_rows[1][k].part_number]

\* the table has a header row and at least one other row
HasHeaderAndData == Len(table) >= 2 /\ AliasRows # {}

\* C11: the data rows come from exactly one side of the header row: when a
\* row strictly above the header holds a non-empty, non-header-like value in
\* the part-number column, the emitted part numbers are those of the valid
\* rows above and nothing from below; otherwise they are those of the valid
\* rows below.  The header row itself is never emitted.
C11_OneSideOfHeader ==
    (part_rows # <<>> /\ HasHeaderAndData) =>
        /\ ValidAbove # {} => EmittedPartNumbers = ValuesOf(ValidAbove)
        /\ ValidAbove = {} => EmittedPartNumbers = ValuesOf(ValidBelow)
        /\ Len(part_rows[1]) <= Len(table) - 1

\* valid rows stand on both sides of the header and only the one above was
\* emitted
C11_Witness ==
    /\ table = <<RowWidget, HeaderNamePnQty, RowGadget>>
    /\ part_rows # <<>>
    /\ ValidAbove = {1} /\ ValidBelow = {3}
    /\ EmittedPartNumbers = << <<"A","B","C","1","2","3">> >>

\* the rows the data is taken from: those above the header when one of them
\* is valid, else those below
CandidateRows ==
    IF ValidAbove # {} THEN 1..(HeaderRow - 1) ELSE (HeaderRow + 1)..Len(table)

\* C12: within the chosen candidate set exactly one PartRow is emitted for
\* each valid row, in top-to-bottom order, and every other row is skipped; an
\* empty table or a table of one row gives the empty list; the table
\* [Name, PART NUMBER, Qty], [Widget, ABC123, 10], [Gadget, XYZ789, 5] gives
\* exactly ABC123, XYZ789.
C12_OnePartRowPerValidRow ==
    part_rows # <<>> =>
        /\ Len(table) < 2 => part_rows[1] = <<>>
        /\ HasHeaderAndData =>
              \E from \in [1..Len(part_rows[1]) -> CandidateRows] :
                  /\ \A j, k \in DOMAIN from : j < k => from[j] < from[k]
                  /\ {from[k] : k \in DOMAIN from} = {r \in CandidateRows : ValidRow(r)}
                  /\ \A k \in DOMAIN from :
                        part_rows[1][k].part_number = TrimmedCell(from[k], PnColumn)
        /\ table = <<HeaderNamePnQty, RowWidget, RowGadget>> =>
              EmittedPartNumbers = << <<"A","B","C","1","2","3">>, <<"X","Y","Z","7","8","9">> >>

\* of a too-short row and a valid row below the header, only the valid one
\* was emitted
C12_Witness ==
    /\ table = <<HeaderNamePnQty, RowShort, RowWidget>>
    /\ part_rows # <<>>
    /\ EmittedPartNumbers = << <<"A","B","C","1","2","3">> >>

\* the canonical fields of a PartRow other than the part number
OtherFields == {"title", "description", "material", "mass", "qty"}

\* for each row of the pool, the first of its cells that matches an alias of
\* the field, or 0 when it holds none
RowFieldColumn ==
    [row \in RowPool |->
        [field \in OtherFields |->
            LET cells == {c \in 1..Len(row) : HeaderKey(row[c]) \in COLUMN_ALIASES[field]}
            IN  IF cells = {} THEN 0
                ELSE CHOOSE c \in cells : \A c2 \in cells : c <= c2]]

\* the column the header row resolves for the field, or 0
FieldColumn(field) == RowFieldColumn[table[HeaderRow]][field]

\* the valid rows of the candidate set
EmittedRows == {r \in CandidateRows : ValidRow(r)}

\* C13: the title, description, material, mass and qty of each emitted
\* PartRow are the trimmed text of its own data row at the column the header
\* row alone resolves for that field, and the empty string when the column is
\* unresolved, the row is shorter than that index, or the cell is None or
\* empty; no other row influences the column map.
C13_FieldsFromHeaderColumns ==
    (part_rows # <<>> /\ HasHeaderAndData) =>
        /\ Len(part_rows[1]) = Cardinality(EmittedRows)
        /\ \A k \in 1..Len(part_rows[1]) :
              \A field \in OtherFields :
                  part_rows[1][k][field] = TrimmedCell(Nth(EmittedRows, k), FieldColumn(field))

\* below a header with a title and a qty column, a row with a None title and
\* a padded quantity and a row too short for the qty column were emitted
C13_Witness ==
    /\ table = <<HeaderNamePnQty, RowNoneB2, RowEmptyFifty>>
    /\ part_rows # <<>>
    /\ Len(part_rows[1]) = 2
    /\ part_rows[1][1].title = <<>> /\ part_rows[1][1].qty = <<"7">>
    /\ part_rows[1][2].qty = <<>> /\ part_rows[1][2].description = <<>>

----------------------------------------------------------------------------
(* SpecDocument: one call of extract_part_rows on a PDF of at most          *)
(* MaxTables detected tables.                                               *)

MaxTables == 3

DetectedTable(page_num, x1, bottom, grid) ==
    [page_num |-> page_num, bbox |-> <<0, 0, x1, bottom>>, grid |-> grid]

GridWidget == <<HeaderNamePnQty, RowWidget>>

GridGadget == <<HeaderNamePnQty, RowGadget>>

GridNoHeader == <<RowWidget, RowGadget>>

GridEmpty == <<>>

\* first page: two tables with the same bottom edge, two with the same
\* position, a lower one, and one whose bottom edge lies beyond PageOffset
TableLeft0 == DetectedTable(0, 100, 700, GridNoHeader)

TableRight0 == DetectedTable(0, 500, 700, GridEmpty)

TableRight0Widget == DetectedTable(0, 500, 700, GridWidget)

TableLow0 == DetectedTable(0, 500, 200, GridGadget)

TableFar0 == DetectedTable(0, 100, 10300, GridNoHeader)

\* second page
TableLeft1 == DetectedTable(1, 100, 200, GridNoHeader)

TableRight1 == DetectedTable(1, 500, 200, GridGadget)

TableHigh1 == DetectedTable(1, 500, 700, GridWidget)

TablePool ==
    { TableLeft0, TableRight0, TableRight0Widget, TableLow0, TableFar0,
      TableLeft1, TableRight1, TableHigh1 }

\* the tables are detected page by page
PageOrdered(tables) ==
    \A j, k \in 1..Len(tables) : j < k => tables[j].page_num <= tables[k].page_num

Pdf_(tables) == [exists |-> TRUE, opens |-> TRUE, tables |-> tables]

MissingPdf == [exists |-> FALSE, opens |-> FALSE, tables |-> <<>>]

UnreadablePdf == [exists |-> TRUE, opens |-> FALSE, tables |-> <<>>]

InitDocument ==
    /\ pc = "ready"
    /\ document \in {Pdf_(tables) : tables \in {t \in Strings(TablePool, MaxTables) : PageOrdered(t)}}
                    \cup {MissingPdf, UnreadablePdf}
    /\ tried = <<>>
    /\ raised = <<>>
    /\ part_rows = <<>>
    /\ table = <<>> /\ header = <<>>
    /\ files = <<>>
    /\ LookupIdle /\ FindIdle /\ CollapseIdle /\ RevisionIdle
    /\ ScanIdle
    /\ BatchIdle
    /\ NormIdle
    /\ AgainIdle
    /\ AppIdle

ExtractPartRows ==
    /\ pc = "ready"
    /\ pc' = "done"
    /\ LET outcome == extract_part_rows(document)
       IN  /\ raised' = outcome.raised
           /\ part_rows' = IF outcome.raised = None THEN <<outcome.value>> ELSE <<>>
    /\ tried' = ExtractedTables(document)
    /\ UNCHANGED <<part_number, files, match_mode, result, file_extensions, matches,
                   groups, collapsed, filename, revision, table, header, document, scanVars, batchVars, normVars, againVars, appVars>>

NextDocument == ExtractPartRows

SpecDocument == InitDocument /\ [][NextDocument]_vars

\* the sort key of the j-th detected table: its page-weighted bottom edge,
\* then its right edge
TableKey(j) ==
    LET tbl == document.tables[j]
    IN  <<tbl.bbox[4] + tbl.page_num * 10000, tbl.bbox[3]>>

\* extract() was called on table a and later on table b
TriedBefore(a, b) ==
    \E m, n \in 1..Len(tried) : m < n /\ tried[m] = a /\ tried[n] = b

BottomInPage(j) == document.tables[j].bbox[4] >= 0 /\ document.tables[j].bbox[4] < 10000

\* C14: the tables are tried in descending order of the key
\* (bottom + page index * 10000, right edge): a table with a larger
\* page-weighted bottom edge, or the same one and a larger right edge, is
\* tried before any other table that is tried; so among tables whose bottom
\* edges lie in [0, 10000) those of a later page come before those of an
\* earlier page.
C14_TrialOrder ==
    (pc = "done" /\ raised = None) =>
        \A i \in Range(tried) :
            \A j \in 1..Len(document.tables) :
                /\ (\/ TableKey(j)[1] > TableKey(i)[1]
                    \/ (TableKey(j)[1] = TableKey(i)[1] /\ TableKey(j)[2] > TableKey(i)[2]))
                      => TriedBefore(j, i)
                /\ (/\ BottomInPage(i) /\ BottomInPage(j)
                    /\ document.tables[j].page_num > document.tables[i].page_num)
                      => TriedBefore(j, i)

\* three tables without part rows were all tried: the one of the second
\* page first, then the right one and the left one of the first page, which
\* share their bottom edge
C14_Witness ==
    /\ pc = "done"
    /\ document = Pdf_(<<TableLeft0, TableRight0, TableLeft1>>)
    /\ tried = <<3, 2, 1>>

\* the PartRows the grid of the j-th detected table yields
RowsOfTable(j) == extract_part_rows_from_table(document.tables[j].grid)

Yields(j) == RowsOfTable(j) # <<>>

\* C15: the returned rows are exactly those of the first table, in trial
\* order, whose grid yields a PartRow: every table tried before it yields
\* none, no table is tried after it, and no untried table precedes it in the
\* order; when no table yields a PartRow, or none is detected, every table
\* was tried and the empty list is returned without an error.  With a
\* first-page table without header and a second-page table with a valid one,
\* the rows of the second-page table are returned.
C15_FirstYieldingTableWins ==
    (pc = "done" /\ document.exists /\ document.opens) =>
        /\ raised = None /\ part_rows # <<>>
        /\ \A m, n \in 1..Len(tried) : m # n => tried[m] # tried[n]
        /\ \A m \in 1..(Len(tried) - 1) : ~Yields(tried[m])
        /\ IF \E j \in 1..Len(document.tables) : Yields(j)
           THEN /\ tried # <<>>
                /\ part_rows[1] = RowsOfTable(tried[Len(tried)])
                /\ part_rows[1] # <<>>
                /\ \A j \in 1..Len(document.tables) :
                      j \notin Range(tried) =>
                          LET won == TableKey(tried[Len(tried)])
                          IN  \/ TableKey(j)[1] < won[1]
                              \/ (TableKey(j)[1] = won[1] /\ TableKey(j)[2] <= won[2])
           ELSE /\ part_rows[1] = <<>>
                /\ Range(tried) = 1..Len(document.tables)
        /\ document = Pdf_(<<TableLeft0, TableRight1>>) =>
              part_rows[1] = extract_part_rows_from_table(GridGadget)

\* the second-page table without header was tried first, the first-page
\* table holding ABC123 won, and the lower first-page table, which holds
\* XYZ789, was never tried
C15_Witness ==
    /\ pc = "done"
    /\ document = Pdf_(<<TableLow0, TableRight0Widget, TableLeft1>>)
    /\ tried = <<3, 2>>
    /\ Yields(1)
    /\ part_rows = <<extract_part_rows_from_table(GridWidget)>>

----------------------------------------------------------------------------
(* SpecScan: scan_folder called once on a directory tree, and one call of   *)
(* lookup_part_numbers on the same tree, step by step: its scan, one loop   *)
(* iteration per part number, its return.                                   *)

MaxEntries == 2

MaxPartNumbers == 2

EntryA1Pdf == FileNode(<<"A","1">>, <<".","p","d","f">>)

EntryA1Ipt == FileNode(<<"A","1">>, <<".","i","p","t">>)

\* a directory whose name looks like a file name
EntryDirZ9Pdf == DirNode(<<"Z","9">>, <<".","p","d","f">>, <<>>)

\* a directory with a file and a subdirectory
EntrySub ==
    DirNode(<<"s","u","b">>, <<>>,
            << FileNode(<<"A","1","_","r","e","v","1">>, <<".","p","d","f">>),
               DirNode(<<"d","e","e","p">>, <<>>,
                       << FileNode(<<"B","1">>, <<".","p","d","f">>) >>) >>)

EntryPool == {EntryA1Pdf, EntryA1Ipt, EntryDirZ9Pdf, EntrySub}

Directory(entries) == [exists |-> TRUE, is_dir |-> TRUE, entries |-> entries]

MissingFolder == [exists |-> FALSE, is_dir |-> FALSE, entries |-> <<>>]

FolderIsFile == [exists |-> TRUE, is_dir |-> FALSE, entries |-> <<>>]

FolderPool ==
    {Directory(entries) : entries \in Lists(EntryPool, MaxEntries)}
        \cup {MissingFolder, FolderIsFile}

ScanPartNumbers == { <<"A","1">>, <<"B","1","*">> }

InitScan ==
    /\ pc = "ready"
    /\ folder \in FolderPool
    /\ recursive \in BOOLEAN
    /\ part_numbers \in Strings(ScanPartNumbers, MaxPartNumbers)
    /\ match_mode \in MatchModes
    /\ scanned = <<>>
    /\ files = <<>>
    /\ position = 0 /\ results = <<>> /\ returned = <<>> /\ scan_calls = 0
    /\ raised = <<>> /\ document = <<>> /\ tried = <<>>
    /\ part_number = <<>> /\ result = MatchResult
    /\ FindIdle /\ CollapseIdle /\ RevisionIdle /\ TableIdle
    /\ BatchIdle
    /\ NormIdle
    /\ AgainIdle
    /\ AppIdle

\* scan_folder(folder, recursive), called on its own
ScanFolder ==
    /\ scanned = <<>>
    /\ scanned' = <<scan_folder(folder, recursive)>>
    /\ UNCHANGED <<pc, part_number, files, match_mode, result, file_extensions, matches,
                   groups, collapsed, filename, revision, table, header, part_rows,
                   docVars, folder, recursive, part_numbers, position, results,
                   returned, scan_calls, batchVars, normVars, againVars, appVars>>

\* lookup_part_numbers: files = scan_folder(folder_path, recursive); results = {}
LookupPartNumbersScan ==
    /\ pc = "ready"
    /\ scan_calls' = scan_calls + 1
    /\ LET outcome == scan_folder(folder, recursive)
       IN  IF outcome.raised # None
           THEN /\ raised' = outcome.raised
                /\ pc' = "raised"
                /\ UNCHANGED <<files, results>>
           ELSE /\ files' = outcome.value
                /\ results' = <<>>
                /\ pc' = "looping"
                /\ UNCHANGED raised
    /\ UNCHANGED <<part_number, match_mode, result, file_extensions, matches,
                   groups, collapsed, filename, revision, table, header, part_rows,
                   document, tried, folder, recursive, scanned, part_numbers,
                   position, returned, batchVars, normVars, againVars, appVars>>

\* a faulty variant: a file matched by one part number is taken out of the
\* snapshot before the next part number is looked up
LookupPartNumbersNext_consumes_snapshot ==
    /\ pc = "looping"
    /\ position < Len(part_numbers)
    /\ LET pn == part_numbers[position + 1]
           found == lookup_part_number(pn, files, match_mode)
           Free(f) == f \notin Range(found.pdf_files) \cup Range(found.model_files)
       IN  /\ results' = (pn :> found) @@ results
           /\ files' = SelectSeq(files, Free)
    /\ position' = position + 1
    /\ UNCHANGED <<pc, part_number, match_mode, result, file_extensions, matches,
                   groups, collapsed, filename, revision, table, header, part_rows,
                   docVars, folder, recursive, scanned, part_numbers, returned,
                   scan_calls, batchVars, normVars, againVars, appVars>>

\* one iteration: results[pn] = lookup_part_number(pn, files, match_mode)
LookupPartNumbersNext ==
    /\ pc = "looping"
    /\ position < Len(part_numbers)
    /\ LET pn == part_numbers[position + 1]
       IN  results' = (pn :> lookup_part_number(pn, files, match_mode)) @@ results
    /\ position' = position + 1
    /\ UNCHANGED <<pc, part_number, files, match_mode, result, file_extensions, matches,
                   groups, collapsed, filename, revision, table, header, part_rows,
                   docVars, folder, recursive, scanned, part_numbers, returned,
                   scan_calls, batchVars, normVars, againVars, appVars>>

\* return results
LookupPartNumbersReturn ==
    /\ pc = "looping"
    /\ position = Len(part_numbers)
    /\ returned' = <<results>>
    /\ pc' = "done"
    /\ UNCHANGED <<part_number, files, match_mode, result, file_extensions, matches,
                   groups, collapsed, filename, revision, table, header, part_rows,
                   docVars, folder, recursive, scanned, part_numbers, position,
                   results, scan_calls, batchVars, normVars, againVars, appVars>>

NextScan ==
    \/ ScanFolder
    \/ LookupPartNumbersScan
    \/ LookupPartNumbersNext
    \/ LookupPartNumbersReturn

SpecScan == InitScan /\ [][NextScan]_vars

\* the nodes below a node, at any depth
RECURSIVE Below(_)
Below(node) ==
    UNION {{node.entries[k]} \cup Below(node.entries[k]) : k \in 1..Len(node.entries)}

\* the paths of the regular files among a set of nodes
FilePaths(nodes) == {node.path : node \in {n \in nodes : n.is_file}}

DirectoryPaths(nodes) == {node.path : node \in {n \in nodes : ~n.is_file}}

\* C18: scan_folder raises FileNotFoundError for a path that does not exist
\* and NotADirectoryError for one that is not a directory; otherwise it
\* returns regular files only, each once: those directly in the directory
\* when recursive is false, and those at any depth when it is true.
\* lookup_part_numbers lets these errors out at once: it has called
\* scan_folder once, has handled no part number, and returns no mapping.
C18_ScanErrorsAndFilesOnly ==
    /\ scanned # <<>> =>
          LET outcome == scanned[1]
              expected == IF recursive THEN FilePaths(Below(folder))
                          ELSE FilePaths(Range(folder.entries))
          IN  /\ ~folder.exists => outcome = Raise("FileNotFoundError")
              /\ (folder.exists /\ ~folder.is_dir) => outcome = Raise("NotADirectoryError")
              /\ (folder.exists /\ folder.is_dir) =>
                    /\ outcome.raised = None
                    /\ Range(outcome.value) = expected
                    /\ Len(outcome.value) = Cardinality(expected)
                    /\ Range(outcome.value) \cap DirectoryPaths(Below(folder)) = {}
    /\ scan_calls <= 1
    /\ (pc # "ready" /\ ~folder.exists) =>
          pc = "raised" /\ raised = Some("FileNotFoundError")
    /\ (pc # "ready" /\ folder.exists /\ ~folder.is_dir) =>
          pc = "raised" /\ raised = Some("NotADirectoryError")
    /\ pc = "raised" =>
          /\ scan_calls = 1
          /\ position = 0 /\ results = <<>> /\ returned = <<>>

\* lookup_part_numbers for two part numbers ended with NotADirectoryError,
\* the error scan_folder gives for the same path
C18_Witness ==
    /\ pc = "raised"
    /\ raised = Some("NotADirectoryError")
    /\ Len(part_numbers) = 2
    /\ scanned = <<Raise("NotADirectoryError")>>

----------------------------------------------------------------------------
(* SpecBatch: one call of extract_part_numbers_batch, or one run of the     *)
(* application's _extraction_worker, on a list of at most MaxBatch PDF      *)
(* paths, one loop iteration per step.  The worker first clears             *)
(* self.results and scans the search folder.                                *)

MaxBatch == 3

PdfPath(parent, name, pdf) == [parent |-> parent, name |-> name, pdf |-> pdf]

\* a/x.pdf holds ABC123, b/x.pdf does not exist, a/y.pdf cannot be opened,
\* b/y.pdf holds XYZ789, a/z.pdf holds a table without part rows
PathAX == PdfPath("a", "x.pdf", Pdf_(<<TableRight0Widget>>))

PathBX == PdfPath("b", "x.pdf", MissingPdf)

PathAY == PdfPath("a", "y.pdf", UnreadablePdf)

PathBY == PdfPath("b", "y.pdf", Pdf_(<<TableLeft0, TableLow0>>))

PathAZ == PdfPath("a", "z.pdf", Pdf_(<<TableLeft0>>))

PathPool == {PathAX, PathBX, PathAY, PathBY, PathAZ}

\* the search folder of the worker
SearchFolders == {Directory(<<EntryA1Pdf, EntrySub>>), MissingFolder}

\* what self.results may hold from an earlier run
StaleResults == ("old.pdf" :> ErrorEntry)

InitBatch ==
    /\ pc = "ready"
    /\ pdf_paths \in Strings(PathPool, MaxBatch)
    /\ \/ /\ call = "batch"
          /\ folder = <<>>
          /\ results = <<>>
       \/ /\ call = "worker"
          /\ folder \in SearchFolders
          /\ results \in {<<>>, StaleResults}
    /\ position = 0 /\ returned = <<>> /\ scan_calls = 0
    /\ recursive = FALSE /\ scanned = <<>> /\ part_numbers = <<>>
    /\ files = <<>>
    /\ DocIdle
    /\ LookupIdle /\ FindIdle /\ CollapseIdle /\ RevisionIdle /\ TableIdle
    /\ NormIdle
    /\ AgainIdle
    /\ AppIdle

\* extract_part_numbers_batch: one iteration of its loop
BatchNext ==
    /\ call = "batch"
    /\ pc = "ready"
    /\ position < Len(pdf_paths)
    /\ results' = BatchStore(results, pdf_paths[position + 1])
    /\ position' = position + 1
    /\ UNCHANGED <<pc, part_number, files, match_mode, result, file_extensions, matches,
                   groups, collapsed, filename, revision, table, header, part_rows,
                   docVars, folder, recursive, scanned, part_numbers, returned,
                   scan_calls, batchVars, normVars, againVars, appVars>>

\* extract_part_numbers_batch: return results
BatchReturn ==
    /\ call = "batch"
    /\ pc = "ready"
    /\ position = Len(pdf_paths)
    /\ returned' = <<results>>
    /\ pc' = "done"
    /\ UNCHANGED <<part_number, files, match_mode, result, file_extensions, matches,
                   groups, collapsed, filename, revision, table, header, part_rows,
                   docVars, folder, recursive, scanned, part_numbers, position,
                   results, scan_calls, batchVars, normVars, againVars, appVars>>

\* _extraction_worker: self.results.clear(); files = scan_folder(self.search_folder);
\* an exception of the scan reaches the outer handler
WorkerScan ==
    /\ call = "worker"
    /\ pc = "ready"
    /\ results' = <<>>
    /\ scan_calls' = scan_calls + 1
    /\ LET outcome == scan_folder(folder, TRUE)
       IN  IF outcome.raised # None
           THEN /\ raised' = outcome.raised
                /\ pc' = "failed"
                /\ UNCHANGED files
           ELSE /\ files' = outcome.value
                /\ pc' = "looping"
                /\ UNCHANGED raised
    /\ UNCHANGED <<part_number, match_mode, result, file_extensions, matches,
                   groups, collapsed, filename, revision, table, header, part_rows,
                   document, tried, folder, recursive, scanned, part_numbers,
                   position, returned, batchVars, normVars, againVars, appVars>>

\* _extraction_worker: one iteration of the loop over self.pdf_paths
WorkerNext ==
    /\ call = "worker"
    /\ pc = "looping"
    /\ position < Len(pdf_paths)
    /\ results' = WorkerStore(results, pdf_paths[position + 1], files)
    /\ position' = position + 1
    /\ UNCHANGED <<pc, part_number, files, match_mode, result, file_extensions, matches,
                   groups, collapsed, filename, revision, table, header, part_rows,
                   docVars, folder, recursive, scanned, part_numbers, returned,
                   scan_calls, batchVars, normVars, againVars, appVars>>

\* _extraction_worker: the loop is over
WorkerDone ==
    /\ call = "worker"
    /\ pc = "looping"
    /\ position = Len(pdf_paths)
    /\ pc' = "done"
    /\ UNCHANGED <<part_number, files, match_mode, result, file_extensions, matches,
                   groups, collapsed, filename, revision, table, header, part_rows,
                   docVars, folder, recursive, scanned, part_numbers, position,
                   results, returned, scan_calls, batchVars, normVars, againVars, appVars>>

NextBatch ==
    \/ BatchNext
    \/ BatchReturn
    \/ WorkerScan
    \/ WorkerNext
    \/ WorkerDone

SpecBatch == InitBatch /\ [][NextBatch]_vars

\* the key under which the call files the document
DocumentKey(pdf_path) ==
    IF call = "batch" THEN pdf_path.name ELSE PathString(pdf_path)

\* the entry the document gets on its own: the empty/error marker when its
\* extraction fails, else its own extraction result
OwnEntry(pdf_path) ==
    LET outcome == extract_part_rows(pdf_path.pdf)
    IN  IF call = "batch"
        THEN IF outcome.raised # None THEN <<>> ELSE PartNumbersOf(outcome.value)
        ELSE IF outcome.raised # None THEN ErrorEntry
             ELSE WorkerMatches(outcome.value, files)

\* C19: in batch processing a failure while extracting a document never
\* leaves the call and never ends the loop: no extraction error is raised,
\* and when the loop is over the result holds for every input document an
\* entry under that document's key, which is the empty/error marker when its
\* extraction failed and its own extraction result otherwise, whatever
\* happened to the other documents.
C19_BatchFailureIsolation ==
    /\ (pc # "failed") => raised = None
    /\ pc = "failed" => (call = "worker" /\ position = 0)
    /\ pc = "done" =>
          \A k \in 1..Len(pdf_paths) :
              /\ DocumentKey(pdf_paths[k]) \in DOMAIN results
              /\ results[DocumentKey(pdf_paths[k])] = OwnEntry(pdf_paths[k])

----------------------------------------------------------------------------
(* SpecNormalize: normalize_for_match called on a text of at most           *)
(* MaxTextLen characters, and then on its own result; normalize_header      *)
(* called on the same text.                                                 *)

MaxTextLen == 3

NormalizeAlphabet == {"A", "b", "1", " ", "\t", "-", "_"}

PartDashNumber == <<"P","A","R","T","-","N","U","M","B","E","R">>

PartSpaceNumber == <<"P","a","r","t"," ","N","u","m","b","e","r">>

InitNormalize ==
    /\ pc = "ready"
    /\ raw_text \in Strings(NormalizeAlphabet, MaxTextLen) \cup {PartDashNumber, PartSpaceNumber}
    /\ normalized_text = <<>>
    /\ renormalized_text = <<>>
    /\ normalized_header = <<>>
    /\ files = <<>>
    /\ DocIdle /\ ScanIdle /\ BatchIdle
    /\ LookupIdle /\ FindIdle /\ CollapseIdle /\ RevisionIdle /\ TableIdle
    /\ AgainIdle
    /\ AppIdle

NormalizeForMatch ==
    /\ normalized_text = <<>>
    /\ normalized_text' = <<normalize_for_match(raw_text)>>
    /\ UNCHANGED <<pc, part_number, files, match_mode, result, file_extensions, matches,
                   groups, collapsed, filename, revision, table, header, part_rows,
                   docVars, scanVars, batchVars, raw_text, renormalized_text,
                   normalized_header, againVars, appVars>>

NormalizeAgain ==
    /\ normalized_text # <<>>
    /\ renormalized_text = <<>>
    /\ renormalized_text' = <<normalize_for_match(normalized_text[1])>>
    /\ UNCHANGED <<pc, part_number, files, match_mode, result, file_extensions, matches,
                   groups, collapsed, filename, revision, table, header, part_rows,
                   docVars, scanVars, batchVars, raw_text, normalized_text,
                   normalized_header, againVars, appVars>>

\* normalize_header(text) for the same, non-null text
NormalizeHeader ==
    /\ normalized_header = <<>>
    /\ normalized_header' = <<normalize_header(Some(raw_text))>>
    /\ UNCHANGED <<pc, part_number, files, match_mode, result, file_extensions, matches,
                   groups, collapsed, filename, revision, table, header, part_rows,
                   docVars, scanVars, batchVars, raw_text, normalized_text,
                   renormalized_text, againVars, appVars>>

NextNormalize == NormalizeForMatch \/ NormalizeAgain \/ NormalizeHeader

SpecNormalize == InitNormalize /\ [][NextNormalize]_vars

\* the lowercase letter of an uppercase letter, any other character itself
LowerOf(c) ==
    IF \E k \in 1..Len(UpperLetters) : UpperLetters[k] = c
    THEN LowerLetters[CHOOSE k \in 1..Len(UpperLetters) : UpperLetters[k] = c]
    ELSE c

\* the result is the text without the characters of removed, the others
\* lowercased and in order; normalizing the result again changes nothing;
\* PART-NUMBER and Part Number both give partnumber
NormalizeRemoves(removed) ==
    /\ normalized_text # <<>> =>
          LET kept == {i \in 1..Len(raw_text) : raw_text[i] \notin removed}
          IN  /\ Len(normalized_text[1]) = Cardinality(kept)
              /\ \A k \in 1..Len(normalized_text[1]) :
                    /\ normalized_text[1][k] = LowerOf(raw_text[Nth(kept, k)])
                    /\ normalized_text[1][k] \notin Range(UpperLetters) \cup removed
              /\ raw_text \in {PartDashNumber, PartSpaceNumber} =>
                    normalized_text[1] = <<"p","a","r","t","n","u","m","b","e","r">>
    /\ renormalized_text # <<>> => renormalized_text = normalized_text

\* C20 as stated: normalize_for_match lowercases its input, removes every
\* space, hyphen and underscore and changes nothing else: the result holds no
\* uppercase letter, space, hyphen or underscore, all other characters are
\* kept in order, and the function is idempotent; PART-NUMBER and
\* Part Number both give partnumber.
C20_RemovesSpaceHyphenUnderscore == NormalizeRemoves({" ", "-", "_"})

\* C20, amended: normalize_for_match lowercases its input, removes every
\* whitespace character (space, tab, newline), hyphen and underscore and
\* changes nothing else: the result holds no uppercase letter, whitespace
\* character, hyphen or underscore, all other characters are kept in order,
\* and the function is idempotent; PART-NUMBER and Part Number both give
\* partnumber.
C20_RemovesWhitespaceHyphenUnderscore == NormalizeRemoves({" ", "\t", "\n", "-", "_"})

\* a text with an uppercase letter, a tab and an underscore was normalized
\* twice
C20_Witness ==
    /\ raw_text = <<"A", "\t", "_">>
    /\ normalized_text = << <<"a">> >>
    /\ renormalized_text = << <<"a">> >>

\* C21: header-alias comparison and filename matching normalize alike: for
\* every non-null text, normalize_header(text) equals
\* normalize_for_match(text).
C21_SameNormalization ==
    (normalized_text # <<>> /\ normalized_header # <<>>) =>
        normalized_header = normalized_text

\* a text with an uppercase letter between a tab and a hyphen went through
\* both functions
C21_Witness ==
    /\ raw_text = <<"\t", "A", "-">>
    /\ normalized_text = << <<"a">> >>
    /\ normalized_header = << <<"a">> >>

----------------------------------------------------------------------------
(* SpecResolve: either one call of lookup_part_numbers on a directory tree, *)
(* step by step, or any sequence of calls of find_matching_files,           *)
(* collapse_to_latest_revision and lookup_part_number by a caller that      *)
(* holds a list of at most MaxResolveFiles files.                           *)

MaxResolveFiles == 3

ResolvePartNumbers == { <<"A","1">>, <<"A">>, <<"B","1","*">> }

\* the files a caller may hold: those of the directory trees
ResolveFiles == FilePaths(UNION {{entry} \cup Below(entry) : entry \in EntryPool})

InitResolve ==
    /\ \/ /\ pc = "ready"
          /\ folder \in FolderPool
          /\ recursive \in BOOLEAN
          /\ part_numbers \in Strings(ResolvePartNumbers, MaxPartNumbers)
          /\ match_mode \in MatchModes
          /\ files = <<>>
          /\ part_number = <<>>
          /\ file_extensions = <<>>
       \/ /\ pc = "calls"
          /\ folder = <<>> /\ recursive = FALSE /\ part_numbers = <<>>
          /\ files \in Lists(ResolveFiles, MaxResolveFiles)
          /\ part_number \in ResolvePartNumbers
          /\ match_mode \in MatchModes
          /\ file_extensions \in ExtensionFilters
    /\ matches = [m \in MatchModes |-> None]
    /\ result = MatchResult
    /\ scanned = <<>>
    /\ position = 0 /\ results = <<>> /\ returned = <<>> /\ scan_calls = 0
    /\ CollapseIdle /\ RevisionIdle /\ TableIdle
    /\ DocIdle /\ BatchIdle /\ NormIdle
    /\ AgainIdle
    /\ AppIdle

\* the caller calls find_matching_files(part_number, files, match_mode, file_extensions)
CallFindMatchingFiles ==
    /\ pc = "calls"
    /\ matches' = [matches EXCEPT
                     ![match_mode] = Some(find_matching_files(part_number, files, match_mode,
                                                              file_extensions))]
    /\ UNCHANGED <<pc, part_number, files, match_mode, result, file_extensions,
                   groups, collapsed, filename, revision, table, header, part_rows,
                   docVars, scanVars, batchVars, normVars, againVars, appVars>>

\* the caller calls collapse_to_latest_revision(files)
CallCollapseToLatestRevision ==
    /\ pc = "calls"
    /\ groups' = BuildGroups(files, <<>>)
    /\ collapsed' = collapse_to_latest_revision(files)
    /\ UNCHANGED <<pc, part_number, files, match_mode, result, file_extensions, matches,
                   filename, revision, table, header, part_rows,
                   docVars, scanVars, batchVars, normVars, againVars, appVars>>

\* the caller calls lookup_part_number(part_number, files, match_mode)
CallLookupPartNumber ==
    /\ pc = "calls"
    /\ result' = lookup_part_number(part_number, files, match_mode)
    /\ UNCHANGED <<pc, part_number, files, match_mode, file_extensions, matches,
                   groups, collapsed, filename, revision, table, header, part_rows,
                   docVars, scanVars, batchVars, normVars, againVars, appVars>>

NextResolve ==
    \/ LookupPartNumbersScan
    \/ LookupPartNumbersNext
    \/ LookupPartNumbersReturn
    \/ CallFindMatchingFiles
    \/ CallCollapseToLatestRevision
    \/ CallLookupPartNumber

SpecResolve == InitResolve /\ [][NextResolve]_vars

\* the part numbers the loop has handled
Handled == {part_numbers[k] : k \in 1..position}

\* lookup_part_numbers has scanned once, holds that snapshot, and has filed
\* under every handled part number what lookup_part_number gives for it on
\* the snapshot; a caller's call returns what the function gives for its
\* arguments, whatever was called before
ResolvedIndependently ==
    /\ scan_calls <= 1
    /\ pc \in {"looping", "done"} =>
          LET snapshot == scan_folder(folder, recursive).value
          IN  /\ scan_calls = 1
              /\ files = snapshot
              /\ DOMAIN results = Handled
              /\ \A pn \in Handled :
                    results[pn] = lookup_part_number(pn, snapshot, match_mode)
              /\ pc = "done" =>
                    /\ position = Len(part_numbers)
                    /\ returned = <<results>>
    /\ pc = "calls" =>
          /\ result \in {MatchResult, lookup_part_number(part_number, files, match_mode)}
          /\ matches[match_mode] \in
                {None, Some(find_matching_files(part_number, files, match_mode,
                                                file_extensions))}
          /\ collapsed \in {<<>>, collapse_to_latest_revision(files)}

\* once the file list exists no step changes it
FileListUnchanged == pc # "ready" => files' = files

\* C22: part numbers are resolved independently and without cross-call
\* state: lookup_part_numbers scans the folder once and maps each part number
\* to the MatchResult lookup_part_number returns for it on the snapshot,
\* whatever else is in the list and in whatever order; and no call of
\* find_matching_files, collapse_to_latest_revision or lookup_part_number
\* changes the file list it is given.
C22_IndependentAndFrame == []ResolvedIndependently /\ [][FileListUnchanged]_vars

\* lookup_part_numbers returned for two part numbers that match the same
\* file, and the snapshot still holds that file
C22_Witness ==
    /\ pc = "done"
    /\ part_numbers = << <<"A">>, <<"A","1">> >>
    /\ EntryA1Pdf.path \in Range(files)
    /\ EntryA1Pdf.path \in Range(returned[1][<<"A">>].pdf_files)
    /\ EntryA1Pdf.path \in Range(returned[1][<<"A","1">>].pdf_files)

----------------------------------------------------------------------------
(* Further claims about collapse_to_latest_revision.                        *)

\* the positions in members of the members of maximum revision number
MaximumPositions(members) ==
    {m \in 1..Len(members) :
        /\ RevOf(members[m]) # None
        /\ \A n \in 1..Len(members) :
              RevOf(members[n]) # None => RevOf(members[n])[1] <= RevOf(members[m])[1]}

\* C23: when several members of a revision group have the same, maximum
\* revision number, collapse_to_latest_revision keeps exactly one of them:
\* the one that is earliest in the input list.
C23_EarliestOfMaximum ==
    pc = "done" =>
        \A i \in 1..Len(files) :
            LET members == WithKey(files, KeyOf[files[i]])
                kept == WithKey(collapsed, KeyOf[files[i]])
                maxima == MaximumPositions(members)
            IN  maxima # {} =>
                    /\ Len(kept) = 1
                    /\ kept[1] = members[CHOOSE m \in maxima : \A n \in maxima : m <= n]

\* abc123_R2 came before ABC123_rev2, both of revision 2, and was kept
C23_Witness ==
    /\ pc = "done"
    /\ files = <<Abc123Rev1, LowerAbc123R2, Abc123, Abc123Rev2>>
    /\ collapsed = <<LowerAbc123R2>>

\* C24: collapse_to_latest_revision only removes files and is idempotent:
\* every file of the output is a file of the input, the output holds no file
\* more often than the input does, and collapsing the output returns it
\* unchanged.
C24_OnlyRemovesAndIdempotent ==
    /\ pc = "done" =>
          \A file_path \in Range(collapsed) :
              /\ file_path \in Range(files)
              /\ Count(collapsed, file_path) <= Count(files, file_path)
    /\ recollapsed # <<>> => recollapsed = <<collapsed>>

\* a list that lost two files of a revision group and kept a file listed
\* twice was collapsed again
C24_Witness ==
    /\ files = <<OtherLower, Abc123Rev1, OtherLower>>
    /\ collapsed = <<OtherLower, OtherLower, Abc123Rev1>>
    /\ recollapsed = <<collapsed>>

----------------------------------------------------------------------------
(* SpecQuery: find_matching_files and lookup_part_number called with a part *)
(* number that leaves an empty query, or with a match mode that is none of  *)
(* the three names, on a list of at most MaxQueryFiles files;               *)
(* find_matching_files is called in that mode and in "contains" mode.       *)

MaxQueryFiles == 2

\* "*", "-", "_", " ", "", "-*" and, for comparison, "A1"
QueryPartNumbers ==
    { <<"*">>, <<"-">>, <<"_">>, <<" ">>, <<>>, <<"-","*">>, <<"A","1">> }

AnyMatchModes == MatchModes \cup {"Exact"}

\* a PDF whose stem normalizes to the empty string is among them
QueryFiles ==
    { [stem |-> <<"A","1">>, suffix |-> <<".","p","d","f">>],
      [stem |-> <<"A","1","_","r","e","v","1">>, suffix |-> <<".","P","D","F">>],
      [stem |-> <<"_">>, suffix |-> <<".","p","d","f">>],
      [stem |-> <<"A","1">>, suffix |-> <<".","i","p","t">>],
      [stem |-> <<"X">>, suffix |-> <<".","I","A","M">>] }

InitQuery ==
    /\ pc = "ready"
    /\ part_number \in QueryPartNumbers
    /\ files \in Lists(QueryFiles, MaxQueryFiles)
    /\ match_mode \in AnyMatchModes
    /\ file_extensions \in ExtensionFilters
    /\ matches = [m \in {match_mode, "contains"} |-> None]
    /\ result = MatchResult
    /\ CollapseIdle /\ RevisionIdle /\ TableIdle
    /\ DocIdle /\ ScanIdle /\ BatchIdle /\ NormIdle /\ AgainIdle
    /\ AppIdle

NextQuery ==
    \/ \E mode \in DOMAIN matches : FindMatchingFiles(mode)
    \/ LookupPartNumber

SpecQuery == InitQuery /\ [][NextQuery]_vars

\* the query find_matching_files derives from the part number is empty
EmptyQuery == normalize_for_match(CleanPartNumber(part_number)) = <<>>

\* the files the extension filter lets through: all of them when no list or
\* an empty list is given
PassingFilter ==
    LET Passes(file_path) ==
            \/ file_extensions = None
            \/ file_extensions[1] = <<>>
            \/ HasExtensionIn(file_path, file_extensions[1])
    IN  SelectSeq(files, Passes)

PdfsOf(list) ==
    LET IsPdf(file_path) == HasExtensionIn(file_path, PdfExtensions)
    IN  SelectSeq(list, IsPdf)

ModelsOf(list) ==
    LET IsModel(file_path) == HasExtensionIn(file_path, ModelExtensions)
    IN  SelectSeq(list, IsModel)

\* with an empty query find_matching_files returns, in every mode but
\* "exact", every file the extension filter lets through
EmptyQueryFindsAll ==
    \A m \in DOMAIN matches :
        (EmptyQuery /\ m # "exact" /\ matches[m] # None) => matches[m][1] = PassingFilter

\* a match mode that is neither "exact" nor "startswith" gives what
\* "contains" gives
OtherModeIsContains ==
    /\ (match_mode \notin {"exact", "startswith"}
            /\ matches[match_mode] # None /\ matches["contains"] # None) =>
          matches[match_mode] = matches["contains"]
    /\ (match_mode \notin {"exact", "startswith"} /\ pc = "done") =>
          result = lookup_part_number(part_number, files, "contains")

----------------------------------------------------------------------------
(* SpecApp: the application window.  The main thread runs one handler at a  *)
(* time: a drop of a PDF, the removal of a list entry, the clearing of the  *)
(* list, a click on the extract button, or the next callback scheduled with *)
(* root.after.  A click that passes the checks of _run_extraction starts a  *)
(* worker thread; the steps of _extraction_worker interleave with the       *)
(* handlers of the main thread.  At most MaxRuns workers are started.  The  *)
(* operating system lets every started worker run on.                       *)

MaxRuns == 2

\* a/x.pdf holds a part number, b/x.pdf does not exist
AppPaths == {PathAX, PathBX}

\* self.search_folder: None, a folder, or a folder that has disappeared
AppFolders == {None, Directory(<<EntryA1Pdf>>), MissingFolder}

\* the lists scan_folder can return for the search folder
AppSnapshots ==
    {scan_folder(f, TRUE).value : f \in {g \in AppFolders \ {None} : g.exists}}

\* the entry one loop iteration of the worker stores for a PDF, given the
\* scanned files
WorkerEntry ==
    [pdf_path \in AppPaths |->
        [fs \in AppSnapshots |-> WorkerStore(<<>>, pdf_path, fs)[PathString(pdf_path)]]]

InitApp ==
    /\ pdf_paths \in Lists(AppPaths, Cardinality(AppPaths))
    /\ folder \in AppFolders
    /\ results = <<>>
    /\ extract_btn = "normal"
    /\ threads = <<>>
    /\ after_queue = <<>>
    /\ pc = "ready" /\ call = "" /\ files = <<>>
    /\ recursive = FALSE /\ scanned = <<>> /\ part_numbers = <<>>
    /\ position = 0 /\ returned = <<>> /\ scan_calls = 0
    /\ LookupIdle /\ FindIdle /\ CollapseIdle /\ RevisionIdle /\ TableIdle
    /\ DocIdle /\ NormIdle /\ AgainIdle

\* _on_drop with one PDF file
OnDrop(pdf) ==
    /\ pdf_paths' = IF pdf \in Range(pdf_paths) THEN pdf_paths ELSE Append(pdf_paths, pdf)
    /\ UNCHANGED <<pc, part_number, files, match_mode, result, file_extensions, matches,
                   groups, collapsed, filename, revision, table, header, part_rows,
                   docVars, folder, recursive, scanned, part_numbers, position,
                   returned, scan_calls, call, normVars, againVars,
                   results, extract_btn, threads, after_queue>>

\* _remove_selected_pdf with the list entry idx selected
RemoveSelectedPdf(idx) ==
    /\ idx \in 1..Len(pdf_paths)
    /\ pdf_paths' = SubSeq(pdf_paths, 1, idx - 1) \o SubSeq(pdf_paths, idx + 1, Len(pdf_paths))
    /\ UNCHANGED <<pc, part_number, files, match_mode, result, file_extensions, matches,
                   groups, collapsed, filename, revision, table, header, part_rows,
                   docVars, folder, recursive, scanned, part_numbers, position,
                   returned, scan_calls, call, normVars, againVars,
                   results, extract_btn, threads, after_queue>>

\* _clear_pdfs
ClearPdfs ==
    /\ pdf_paths' = <<>>
    /\ UNCHANGED <<pc, part_number, files, match_mode, result, file_extensions, matches,
                   groups, collapsed, filename, revision, table, header, part_rows,
                   docVars, folder, recursive, scanned, part_numbers, position,
                   returned, scan_calls, call, normVars, againVars,
                   results, extract_btn, threads, after_queue>>

\* a worker thread at the start of _extraction_worker; paths_at_start
\* records self.pdf_paths as it is when the thread is started
NewThread ==
    [pc |-> "start", files |-> <<>>, index |-> 0, paths_at_start |-> pdf_paths,
     scanned |-> FALSE, completions |-> 0]

\* _run_extraction, the command of the extract button: a disabled button
\* does not call it
RunExtraction ==
    /\ extract_btn = "normal"
    /\ Len(threads) < MaxRuns
    /\ IF pdf_paths = <<>> \/ folder = None
       THEN UNCHANGED <<extract_btn, threads>>
       ELSE /\ extract_btn' = "disabled"
            /\ threads' = Append(threads, NewThread)
    /\ UNCHANGED <<pc, part_number, files, match_mode, result, file_extensions, matches,
                   groups, collapsed, filename, revision, table, header, part_rows,
                   docVars, folder, recursive, scanned, part_numbers, position,
                   returned, scan_calls, call, normVars, againVars,
                   pdf_paths, results, after_queue>>

\* _extraction_worker up to the loop: self.results.clear() and
\* scan_folder(self.search_folder); an exception goes to the outer handler,
\* which schedules the error dialog, and then to the finally clause
ExtractionWorkerScan(t) ==
    /\ threads[t].pc = "start"
    /\ results' = <<>>
    /\ LET outcome == scan_folder(folder, TRUE)
       IN  IF outcome.raised # None
           THEN /\ threads' = [threads EXCEPT ![t].pc = "exited",
                                              ![t].completions = @ + 1]
                /\ after_queue' = after_queue \o <<"showerror", "_extraction_complete">>
           ELSE /\ threads' = [threads EXCEPT ![t].pc = "looping",
                                              ![t].files = outcome.value,
                                              ![t].scanned = TRUE]
                /\ UNCHANGED after_queue
    /\ UNCHANGED <<pc, part_number, files, match_mode, result, file_extensions, matches,
                   groups, collapsed, filename, revision, table, header, part_rows,
                   docVars, folder, recursive, scanned, part_numbers, position,
                   returned, scan_calls, call, normVars, againVars,
                   pdf_paths, extract_btn>>

\* one iteration of "for pdf_path in self.pdf_paths": the list iterator
\* yields the entry at its index of the list as it is now
ExtractionWorkerNext(t) ==
    /\ threads[t].pc = "looping"
    /\ threads[t].index < Len(pdf_paths)
    /\ LET pdf_path == pdf_paths[threads[t].index + 1]
       IN  results' = (PathString(pdf_path) :> WorkerEntry[pdf_path][threads[t].files])
                          @@ results
    /\ threads' = [threads EXCEPT ![t].index = @ + 1]
    /\ UNCHANGED <<pc, part_number, files, match_mode, result, file_extensions, matches,
                   groups, collapsed, filename, revision, table, header, part_rows,
                   docVars, folder, recursive, scanned, part_numbers, position,
                   returned, scan_calls, call, normVars, againVars,
                   pdf_paths, extract_btn, after_queue>>

\* the list iterator is exhausted: _display_results is scheduled, and then,
\* in the finally clause, _extraction_complete
ExtractionWorkerFinally(t) ==
    /\ threads[t].pc = "looping"
    /\ threads[t].index >= Len(pdf_paths)
    /\ threads' = [threads EXCEPT ![t].pc = "exited", ![t].completions = @ + 1]
    /\ after_queue' = after_queue \o <<"_display_results", "_extraction_complete">>
    /\ UNCHANGED <<pc, part_number, files, match_mode, result, file_extensions, matches,
                   groups, collapsed, filename, revision, table, header, part_rows,
                   docVars, folder, recursive, scanned, part_numbers, position,
                   returned, scan_calls, call, normVars, againVars,
                   pdf_paths, results, extract_btn>>

\* a step of a worker thread
ExtractionWorker ==
    \E t \in DOMAIN threads :
        \/ ExtractionWorkerScan(t)
        \/ ExtractionWorkerNext(t)
        \/ ExtractionWorkerFinally(t)

\* the main loop runs the next scheduled callback; _extraction_complete
\* enables the button again
MainLoop ==
    /\ after_queue # <<>>
    /\ after_queue' = Tail(after_queue)
    /\ extract_btn' = IF Head(after_queue) = "_extraction_complete" THEN "normal"
                      ELSE extract_btn
    /\ UNCHANGED <<pc, part_number, files, match_mode, result, file_extensions, matches,
                   groups, collapsed, filename, revision, table, header, part_rows,
                   docVars, folder, recursive, scanned, part_numbers, position,
                   returned, scan_calls, call, normVars, againVars,
                   pdf_paths, results, threads>>

NextApp ==
    \/ \E pdf \in AppPaths : OnDrop(pdf)
    \/ \E idx \in 1..Cardinality(AppPaths) : RemoveSelectedPdf(idx)
    \/ ClearPdfs
    \/ RunExtraction
    \/ ExtractionWorker
    \/ MainLoop

SpecApp == InitApp /\ [][NextApp]_vars /\ WF_vars(ExtractionWorker)

\* the workers that have not left _extraction_worker
Running == {t \in DOMAIN threads : threads[t].pc # "exited"}

\* _extraction_complete is scheduled once by a worker that has ended and not
\* before
CompletionOnce ==
    \A t \in DOMAIN threads :
        threads[t].completions = IF threads[t].pc = "exited" THEN 1 ELSE 0

\* at most one worker runs, and the button is disabled while it does
OneWorker ==
    /\ Cardinality(Running) <= 1
    /\ Running # {} => extract_btn = "disabled"

\* when the last started worker has ended after a successful scan, results
\* has an entry under the path of every PDF that was in the list when that
\* worker was started
ResultsCoverStart ==
    \A t \in DOMAIN threads :
        (t = Len(threads) /\ threads[t].pc = "exited" /\ threads[t].scanned) =>
            \A k \in 1..Len(threads[t].paths_at_start) :
                PathString(threads[t].paths_at_start[k]) \in DOMAIN results

\* every started worker gets to schedule _extraction_complete
CompletionScheduled ==
    \A t \in 1..MaxRuns :
        (Len(threads) >= t) ~> (Len(threads) >= t /\ threads[t].completions = 1)

\* C26: once _run_extraction has disabled the button and started the worker,
\* _extraction_complete is eventually scheduled, exactly once, whether the
\* scan fails, a document fails or all succeeds; at most one worker runs at a
\* time; and after a successful scan the results hold an entry for every PDF
\* that was in the list when the run started, even if the user adds, removes
\* or clears PDFs while the worker iterates over the list.
C26_BackgroundExtraction ==
    /\ [](CompletionOnce /\ OneWorker /\ ResultsCoverStart)
    /\ CompletionScheduled

=============================================================================
